---- MODULE Spec2Model ----
(***************************************************************************)
(* Verification model of the autophage ECS core: the generational          *)
(* EntityManager (entity.hpp), the sparse-set ComponentArray and the       *)
(* ComponentRegistry (component_storage.hpp) and the World facade           *)
(* (world.hpp).                                                             *)
(*                                                                          *)
(* C++ vectors are 0-based; the sequences below are 1-based, so slot i of  *)
(* a vector is element i + 1 of the sequence.  Values stored inside the    *)
(* vectors (slot indices, dense indices) keep their 0-based C++ value.     *)
(***************************************************************************)
EXTENDS Integers, Sequences, FiniteSets, TLC

\* ------------------------------------------------------------------ bounds
\* Number of values the generation counter takes in the model (it is a u32 in
\* the source, 2^32 values; 2^2 here): arithmetic on it is modulo GenMod.
GenMod == 4
\* Largest number of slots the EntityManager specification lets create allocate.
MaxSlots == 2
\* Largest entity index handed to a stand-alone ComponentArray.
CAMaxIndex == 1
\* Largest dense size the ComponentArray specification lets set grow to.
MaxDense == 3
\* World specification: largest number of distinct handles createEntity may
\* hand out, and largest dense size addComponent may grow an array to.
WorldMaxHandles == 2
WorldMaxDense == 1

\* --------------------------------------------------------------- constants
\* INVALID_INDEX is ~usize{0}: a value no dense position can take.
INVALID_INDEX == 2147483647

\* Opaque component values (T is opaque to the storage).
Values == {"v1", "v2"}
\* Component types of the model.
CompA == "A"
CompB == "B"

\* --------------------------------------------------------------- entities
INVALID_ENTITY == [index |-> 0, generation |-> 0]
isValid(e) == e.generation # 0

\* --------------------------------------------------------------- variables
VARIABLES
    entities_,   \* World::entities_ / a stand-alone EntityManager
    arrays_,     \* ComponentRegistry::arrays_ : TypeId -> ComponentArray
    op,          \* the last operation called, its arguments and what it returned
    issued,      \* history: the entities create has returned (since the last
                 \* clear, or ever when keepHistory)
    destroyed,   \* history: the entities destroy has returned true for (likewise)
    pending,     \* history: slot indices destroyed and not yet reused, oldest first
    keepHistory, \* history mode, fixed by Init: issued and destroyed survive clear
    systems_,    \* SystemRegistry::systems_ (World::systems_), in registration order
    calls,       \* the init / update / shutdown calls the last registry operation made
    nextSystem,  \* identity the next constructed system object gets
    profiler,    \* g_profiler, the profiler's global state
    now,         \* the last reading of Clock::now()
    simdBuild,   \* fixed by Init: the build defines AUTOPHAGE_SIMD_AVX2 or _SSE2
    bus,         \* an EventBus: dispatchers_ and nextListenerId_
    pub,         \* the publish call in flight: its callbacks and what it has invoked
    threads,     \* the threads recording allocations: where each one stands in
                 \* its call and the values it holds in locals
    tracker,     \* g_memoryTrackers[tag], the counters of one memory tag
    hist         \* history: bytes recorded, values currentBytes took, stale zone ids

vars == <<entities_, arrays_, op, issued, destroyed, pending, keepHistory,
          systems_, calls, nextSystem, profiler, now, simdBuild, bus, pub,
          threads, tracker, hist>>

\* The threads, the memory tag they record to and the history kept of them.
concVars == <<threads, tracker, hist>>

\* The clock, the build and the event bus.
auxVars == <<now, simdBuild, bus, pub, concVars>>

\* The variables of the system registry and of the profiler.
sysVars == <<systems_, calls, nextSystem>>

\* FrameStats{} with its frame number set: the fields the profiler writes
FrameStats(n) == [frameNumber |-> n, totalTime |-> 0, memoryUsed |-> 0]

\* ProfilerState as constructed: frameNumber{0}, initialized{false},
\* historySize = 300, empty history, a default FrameStats.  crashed tells that
\* the process was ended by undefined behaviour.
ProfilerState == [frameHistory |-> <<>>, currentZones |-> <<>>, zoneStartTimes |-> <<>>,
                  currentFrame |-> FrameStats(0), frameStart |-> 0, frameNumber |-> 0,
                  initialized |-> FALSE, historySize |-> 300, crashed |-> FALSE]

\* EventBus as constructed: no dispatcher, nextListenerId_ = 1, mutex_ unlocked
\* (mutex_ tells whether some call holds the lock)
EmptyBus == [dispatchers_ |-> <<>>, nextListenerId_ |-> 1, mutex_ |-> FALSE]
\* No publish in flight.  dispatches holds one entry per publish call that
\* has copied its callbacks and not yet returned: the event type, the copied
\* callbacks (named by listener id) and the number of them invoked so far.
\* owner tells
\* the event type each issued listener id was subscribed to; unsubscribed
\* holds the <<type, id>> of every listener an unsubscribe call has removed.
NoPublish == [dispatches |-> <<>>, owner |-> <<>>, unsubscribed |-> {}]

\* The threads of the model.
ThreadIds == {"T1", "T2"}
\* A thread outside every call: bytes is the argument of the call it is in,
\* current and peak are the locals of trackAllocation, loaded is the value of
\* memoryUsed that recordAllocation's += has read.
IdleThread == [pc |-> "idle", bytes |-> 0, current |-> 0, peak |-> 0, loaded |-> 0]
\* TaggedMemoryTracker as constructed: every counter is 0
TaggedMemoryTracker == [currentBytes |-> 0, peakBytes |-> 0,
                        totalAllocations |-> 0, totalDeallocations |-> 0]
\* Nothing recorded yet.  recorded is the sum of the bytes of the
\* recordAllocation calls made in the current frame, largest is the largest
\* value currentBytes has taken, stale holds the zone ids beginZone returned
\* before the most recent beginFrame or while the profiler was uninitialized,
\* beforeClear the handles createEntity returned before the last World::clear,
\* recycled the handles create has returned from its recycle branch since,
\* added the value last passed to addComponent for each type and each entity
\* that was alive at the call.
NoHistory == [recorded |-> 0, largest |-> 0, stale |-> {},
              beforeClear |-> {}, recycled |-> {}, added |-> {}]

\* An empty system registry and the profiler as constructed.
InitSysProfiler ==
    /\ systems_ = <<>>
    /\ calls = <<>>
    /\ nextSystem = 1
    /\ profiler = ProfilerState
    /\ now = 0
    /\ simdBuild = FALSE
    /\ bus = EmptyBus
    /\ pub = NoPublish
    /\ threads = [t \in ThreadIds |-> IdleThread]
    /\ tracker = TaggedMemoryTracker
    /\ hist = NoHistory

\* =========================================================================
\* EntityManager
\* =========================================================================
EmptyManager == [generations_ |-> <<>>, alive_ |-> <<>>, freeList_ |-> <<>>, aliveCount_ |-> 0]

capacity(em) == Len(em.generations_)
recycledCount(em) == Len(em.freeList_)

\* An isAlive that compares the generation and ignores the alive bit.
isAliveByGeneration(em, entity) ==
    IF entity.index >= Len(em.generations_)
    THEN FALSE
    ELSE em.generations_[entity.index + 1] = entity.generation
\* isAlive(entity)
isAlive(em, entity) ==
    IF entity.index >= Len(em.generations_)
    THEN FALSE
    ELSE em.alive_[entity.index + 1] /\ em.generations_[entity.index + 1] = entity.generation

\* generations_[index]++ on a u32
NextGeneration(g) == (g + 1) % GenMod

\* A create that takes the oldest free slot instead of the newest.
RecycleIndexFifo(fl) == fl[1]
\* freeList_.back()
RecycleIndex(fl) == fl[Len(fl)]

\* freeList_.pop_back() (the free list without the slot create took)
PopFree(fl) == SubSeq(fl, 1, Len(fl) - 1)

\* create(): the manager afterwards and the entity returned
EntityManager_create(em) ==
    IF em.freeList_ # <<>>
    THEN LET index == RecycleIndex(em.freeList_)
             gen == NextGeneration(em.generations_[index + 1])
         IN [em |-> [generations_ |-> [em.generations_ EXCEPT ![index + 1] = gen],
                     alive_ |-> [em.alive_ EXCEPT ![index + 1] = TRUE],
                     freeList_ |-> PopFree(em.freeList_),
                     aliveCount_ |-> em.aliveCount_ + 1],
             ret |-> [index |-> index, generation |-> gen]]
    ELSE LET index == Len(em.generations_)
         IN [em |-> [generations_ |-> Append(em.generations_, 1),
                     alive_ |-> Append(em.alive_, TRUE),
                     freeList_ |-> em.freeList_,
                     aliveCount_ |-> em.aliveCount_ + 1],
             ret |-> [index |-> index, generation |-> 1]]

\* destroy(entity): the manager afterwards and the boolean returned
EntityManager_destroy(em, entity) ==
    IF ~isAlive(em, entity)
    THEN [em |-> em, ret |-> FALSE]
    ELSE [em |-> [em EXCEPT !.alive_[entity.index + 1] = FALSE,
                            !.freeList_ = Append(em.freeList_, entity.index),
                            !.aliveCount_ = em.aliveCount_ - 1],
          ret |-> TRUE]

\* clear()
EntityManager_clear(em) == EmptyManager

\* ---------------------------------------------------------------- history
\* pending without the slot a create has just reused
RECURSIVE Without(_, _)
Without(s, x) ==
    IF s = <<>> THEN <<>>
    ELSE IF s[Len(s)] = x THEN SubSeq(s, 1, Len(s) - 1)
    ELSE Append(Without(SubSeq(s, 1, Len(s) - 1), x), s[Len(s)])

\* op: the name of the last operation; for the EntityManager and the World also
\* the entity passed (e), the entity returned (ent), the boolean returned (ok)
\* and the component type (ty); for a ComponentArray ok tells whether has(e)
\* held when the operation was called; cnt is the number of registered arrays
\* that held the entity when destroyEntity was called; threw tells that the
\* operation left by a C++ exception instead of returning; seq is the sequence
\* of entities a query's forEach called its callback with; key is the type-id or
\* the display name a system replacement looked for; stats is the ProfilerStats
\* getProfilerStats returned.
NoOp == [name |-> "init", e |-> INVALID_ENTITY, ok |-> FALSE, ent |-> INVALID_ENTITY,
         ty |-> CompA, cnt |-> 0, threw |-> FALSE, seq |-> <<>>, key |-> "",
         stats |-> <<>>]

\* Handles a caller may pass to the EntityManager: every generation value, and
\* every slot index up to one past the largest capacity.
Handles == [index : 0..MaxSlots, generation : 0..(GenMod - 1)]

\* --------------------------------------------- EntityManager specification
EMCreate ==
    /\ (entities_.freeList_ # <<>> \/ capacity(entities_) < MaxSlots)
    /\ LET r == EntityManager_create(entities_)
       IN /\ entities_' = r.em
          /\ op' = [NoOp EXCEPT !.name = "create", !.ent = r.ret]
          /\ issued' = issued \cup {r.ret}
          /\ pending' = Without(pending, r.ret.index)
    /\ UNCHANGED <<arrays_, destroyed, keepHistory, sysVars, profiler, auxVars>>

EMDestroy(e) ==
    /\ LET r == EntityManager_destroy(entities_, e)
       IN /\ entities_' = r.em
          /\ op' = [NoOp EXCEPT !.name = "destroy", !.e = e, !.ok = r.ret]
          /\ destroyed' = IF r.ret THEN destroyed \cup {e} ELSE destroyed
          /\ pending' = IF r.ret THEN Append(pending, e.index) ELSE pending
    /\ UNCHANGED <<arrays_, issued, keepHistory, sysVars, profiler, auxVars>>

EMClear ==
    /\ entities_' = EntityManager_clear(entities_)
    /\ op' = [NoOp EXCEPT !.name = "clear"]
    /\ pending' = <<>>
    /\ issued' = IF keepHistory THEN issued ELSE {}
    /\ destroyed' = IF keepHistory THEN destroyed ELSE {}
    /\ UNCHANGED <<arrays_, keepHistory, sysVars, profiler, auxVars>>

InitEM ==
    /\ entities_ = EmptyManager
    /\ arrays_ = <<>>
    /\ op = NoOp
    /\ issued = {}
    /\ destroyed = {}
    /\ pending = <<>>
    /\ keepHistory = FALSE
    /\ InitSysProfiler

NextEM ==
    \/ EMCreate
    \/ \E e \in Handles : EMDestroy(e)
    \/ EMClear

SpecEM == InitEM /\ [][NextEM]_vars

\* The same manager with the history kept across clear.
InitEMHistory ==
    /\ entities_ = EmptyManager
    /\ arrays_ = <<>>
    /\ op = NoOp
    /\ issued = {}
    /\ destroyed = {}
    /\ pending = <<>>
    /\ keepHistory = TRUE
    /\ InitSysProfiler

SpecEMHistory == InitEMHistory /\ [][NextEM]_vars

\* =========================================================================
\* ComponentArray<T> (sparse set)
\* =========================================================================
EmptyArray == [denseEntities_ |-> <<>>, denseComponents_ |-> <<>>, sparse_ |-> <<>>]

size(a) == Len(a.denseEntities_)

has(a, entity) ==
    IF entity.index >= Len(a.sparse_)
    THEN FALSE
    ELSE LET denseIdx == a.sparse_[entity.index + 1]
         IN IF denseIdx = INVALID_INDEX \/ denseIdx >= Len(a.denseEntities_)
            THEN FALSE
            ELSE a.denseEntities_[denseIdx + 1] = entity

\* sparse_.resize(entity.index + 1, INVALID_INDEX) when the index is past the end
ResizeSparse(sp, entity) ==
    IF entity.index >= Len(sp)
    THEN sp \o [i \in 1..(entity.index + 1 - Len(sp)) |-> INVALID_INDEX]
    ELSE sp

\* A set without the replace branch: it appends also when the entity is present.
setAlwaysAppends(a, entity, component) ==
    [denseEntities_ |-> Append(a.denseEntities_, entity),
     denseComponents_ |-> Append(a.denseComponents_, component),
     sparse_ |-> [ResizeSparse(a.sparse_, entity) EXCEPT
                      ![entity.index + 1] = Len(a.denseEntities_)]]
\* set(entity, component): the array afterwards
set(a, entity, component) ==
    IF has(a, entity)
    THEN LET denseIdx == a.sparse_[entity.index + 1]
         IN [a EXCEPT !.denseComponents_[denseIdx + 1] = component]
    ELSE [denseEntities_ |-> Append(a.denseEntities_, entity),
          denseComponents_ |-> Append(a.denseComponents_, component),
          sparse_ |-> [ResizeSparse(a.sparse_, entity) EXCEPT
                           ![entity.index + 1] = Len(a.denseEntities_)]]

\* get(entity): nullptr, or a pointer to the stored component
NullPtr == [isNull |-> TRUE, value |-> "v1"]
get(a, entity) ==
    IF ~has(a, entity)
    THEN NullPtr
    ELSE [isNull |-> FALSE, value |-> a.denseComponents_[a.sparse_[entity.index + 1] + 1]]

\* A remove without the has() check: it drops the last entry whenever the
\* index is in range.
removeByIndexOnly(a, entity) ==
    IF entity.index >= Len(a.sparse_) \/ a.denseEntities_ = <<>>
    THEN a
    ELSE [denseEntities_ |-> SubSeq(a.denseEntities_, 1, Len(a.denseEntities_) - 1),
          denseComponents_ |-> SubSeq(a.denseComponents_, 1, Len(a.denseComponents_) - 1),
          sparse_ |-> [a.sparse_ EXCEPT ![entity.index + 1] = INVALID_INDEX]]
\* remove(entity): the array afterwards
remove(a, entity) ==
    IF ~has(a, entity)
    THEN a
    ELSE LET denseIdx == a.sparse_[entity.index + 1]
             lastIdx == Len(a.denseEntities_) - 1
             moved == a.denseEntities_[lastIdx + 1]
             de == IF denseIdx # lastIdx
                   THEN [a.denseEntities_ EXCEPT ![denseIdx + 1] = moved]
                   ELSE a.denseEntities_
             dc == IF denseIdx # lastIdx
                   THEN [a.denseComponents_ EXCEPT
                             ![denseIdx + 1] = a.denseComponents_[lastIdx + 1]]
                   ELSE a.denseComponents_
             sp == IF denseIdx # lastIdx
                   THEN [a.sparse_ EXCEPT ![moved.index + 1] = denseIdx]
                   ELSE a.sparse_
         IN [denseEntities_ |-> SubSeq(de, 1, lastIdx),
             denseComponents_ |-> SubSeq(dc, 1, lastIdx),
             sparse_ |-> [sp EXCEPT ![entity.index + 1] = INVALID_INDEX]]

\* onEntityDestroyed(entity) { remove(entity); }
onEntityDestroyed(a, entity) == remove(a, entity)

\* clear()
ComponentArray_clear(a) == EmptyArray

\* ------------------------------------------- ComponentArray specification
\* Entities a caller may hand to a stand-alone array: any index, and two
\* generations per index (a handle and the handle of the recycled slot).
CAGenerations == {1, 2}
CAEntities == [index : 0..CAMaxIndex, generation : CAGenerations]

CASet(e, v) ==
    /\ (has(arrays_[CompA], e) \/ size(arrays_[CompA]) < MaxDense)
    /\ arrays_' = [arrays_ EXCEPT ![CompA] = set(@, e, v)]
    /\ op' = [NoOp EXCEPT !.name = "set", !.ok = has(arrays_[CompA], e)]
    /\ UNCHANGED <<entities_, issued, destroyed, pending, keepHistory, sysVars, profiler, auxVars>>

CARemove(e) ==
    /\ arrays_' = [arrays_ EXCEPT ![CompA] = remove(@, e)]
    /\ op' = [NoOp EXCEPT !.name = "remove", !.ok = has(arrays_[CompA], e)]
    /\ UNCHANGED <<entities_, issued, destroyed, pending, keepHistory, sysVars, profiler, auxVars>>

CAOnEntityDestroyed(e) ==
    /\ arrays_' = [arrays_ EXCEPT ![CompA] = onEntityDestroyed(@, e)]
    /\ op' = [NoOp EXCEPT !.name = "onEntityDestroyed"]
    /\ UNCHANGED <<entities_, issued, destroyed, pending, keepHistory, sysVars, profiler, auxVars>>

CAClear ==
    /\ arrays_' = [arrays_ EXCEPT ![CompA] = ComponentArray_clear(@)]
    /\ op' = [NoOp EXCEPT !.name = "clear"]
    /\ UNCHANGED <<entities_, issued, destroyed, pending, keepHistory, sysVars, profiler, auxVars>>

InitCA ==
    /\ entities_ = EmptyManager
    /\ arrays_ = [t \in {CompA} |-> EmptyArray]
    /\ op = NoOp
    /\ issued = {}
    /\ destroyed = {}
    /\ pending = <<>>
    /\ keepHistory = FALSE
    /\ InitSysProfiler

NextCA ==
    \/ \E e \in CAEntities, v \in Values : CASet(e, v)
    \/ \E e \in CAEntities : CARemove(e)
    \/ \E e \in CAEntities : CAOnEntityDestroyed(e)
    \/ CAClear

SpecCA == InitCA /\ [][NextCA]_vars

\* =========================================================================
\* ComponentRegistry and World
\* =========================================================================
TypeIds == {CompA, CompB}

isRegistered(arrays, t) == t \in DOMAIN arrays

\* registerComponent<T>(): a new empty array unless T is registered
registerComponent(arrays, t) ==
    IF t \in DOMAIN arrays
    THEN arrays
    ELSE [u \in DOMAIN arrays \cup {t} |-> IF u = t THEN EmptyArray ELSE arrays[u]]

\* getArray<T>() (non-const): registers T on first use; the registry afterwards
getArray(arrays, t) == registerComponent(arrays, t)

\* A fan-out that stops after the first array.
registryOnEntityDestroyedFirstOnly(arrays, entity) ==
    [t \in DOMAIN arrays |->
        IF t = CompA THEN onEntityDestroyed(arrays[t], entity) ELSE arrays[t]]
\* ComponentRegistry::onEntityDestroyed(entity): every registered array is told
registryOnEntityDestroyed(arrays, entity) ==
    [t \in DOMAIN arrays |-> onEntityDestroyed(arrays[t], entity)]

\* World::destroyEntity(entity): the manager and the registry afterwards
World_destroyEntity(em, arrays, entity) ==
    LET r == EntityManager_destroy(em, entity)
    IN [em |-> r.em,
        arrays |-> IF r.ret THEN registryOnEntityDestroyed(arrays, entity) ELSE arrays,
        ret |-> r.ret]

\* World::addComponent<T>(entity, component): the registry afterwards
World_addComponent(arrays, t, entity, component) ==
    LET reg == getArray(arrays, t)
    IN [reg EXCEPT ![t] = set(@, entity, component)]

\* World::removeComponent<T>(entity): the registry afterwards
World_removeComponent(arrays, t, entity) ==
    LET reg == getArray(arrays, t)
    IN [reg EXCEPT ![t] = remove(@, entity)]

\* getArray<T>() const: throws std::runtime_error when T is not registered
getArrayConstThrows(arrays, t) == t \notin DOMAIN arrays

\* World::hasComponent<T>(entity) const: components_ is const inside a const
\* member function, so the const getArray is the one called.
World_hasComponent(arrays, t, entity) ==
    IF getArrayConstThrows(arrays, t)
    THEN [threw |-> TRUE, ret |-> FALSE, arrays |-> arrays]
    ELSE [threw |-> FALSE, ret |-> has(arrays[t], entity), arrays |-> arrays]

\* World::getComponent<T>(entity) (mutable): the non-const getArray registers T
World_getComponent(arrays, t, entity) ==
    LET reg == getArray(arrays, t)
    IN [threw |-> FALSE, ret |-> get(reg[t], entity), arrays |-> reg]

\* World::getComponent<T>(entity) const
World_getComponentConst(arrays, t, entity) ==
    IF getArrayConstThrows(arrays, t)
    THEN [threw |-> TRUE, ret |-> NullPtr, arrays |-> arrays]
    ELSE [threw |-> FALSE, ret |-> get(arrays[t], entity), arrays |-> arrays]

\* ------------------------------------------------------ World specification
\* Handles a caller of the World holds: those createEntity has returned, alive
\* or stale.  destroyEntity is also called with INVALID_ENTITY.
WorldHandles == issued
\* The World's claims do not depend on the component values: one value.
WorldValues == {"v1"}

WCreateEntity ==
    /\ LET r == EntityManager_create(entities_)
       IN /\ Cardinality(issued \cup {r.ret}) <= WorldMaxHandles
          /\ entities_' = r.em
          /\ op' = [NoOp EXCEPT !.name = "createEntity", !.ent = r.ret]
          /\ issued' = issued \cup {r.ret}
          /\ pending' = Without(pending, r.ret.index)
    /\ UNCHANGED <<arrays_, destroyed, keepHistory, sysVars, profiler, auxVars>>

WDestroyEntity(e) ==
    /\ LET r == World_destroyEntity(entities_, arrays_, e)
       IN /\ entities_' = r.em
          /\ arrays_' = r.arrays
          /\ op' = [NoOp EXCEPT !.name = "destroyEntity", !.e = e, !.ok = r.ret,
                                 !.cnt = Cardinality({t \in DOMAIN arrays_ : has(arrays_[t], e)})]
          /\ destroyed' = IF r.ret THEN destroyed \cup {e} ELSE destroyed
          /\ pending' = IF r.ret THEN Append(pending, e.index) ELSE pending
    /\ UNCHANGED <<issued, keepHistory, sysVars, profiler, auxVars>>

WAddComponent(t, e, v) ==
    /\ LET a == getArray(arrays_, t)[t]
       IN has(a, e) \/ size(a) < WorldMaxDense
    /\ arrays_' = World_addComponent(arrays_, t, e, v)
    /\ op' = [NoOp EXCEPT !.name = "addComponent", !.ty = t]
    /\ UNCHANGED <<entities_, issued, destroyed, pending, keepHistory, sysVars, profiler, auxVars>>

WRemoveComponent(t, e) ==
    /\ arrays_' = World_removeComponent(arrays_, t, e)
    /\ op' = [NoOp EXCEPT !.name = "removeComponent", !.ty = t]
    /\ UNCHANGED <<entities_, issued, destroyed, pending, keepHistory, sysVars, profiler, auxVars>>

WRegisterComponent(t) ==
    /\ arrays_' = registerComponent(arrays_, t)
    /\ op' = [NoOp EXCEPT !.name = "registerComponent", !.ty = t]
    /\ UNCHANGED <<entities_, issued, destroyed, pending, keepHistory, sysVars, profiler, auxVars>>

WHasComponent(t, e) ==
    /\ LET r == World_hasComponent(arrays_, t, e)
       IN /\ arrays_' = r.arrays
          /\ op' = [NoOp EXCEPT !.name = "hasComponent", !.ok = r.ret, !.threw = r.threw]
    /\ UNCHANGED <<entities_, issued, destroyed, pending, keepHistory, sysVars, profiler, auxVars>>

WGetComponent(t, e) ==
    /\ LET r == World_getComponent(arrays_, t, e)
       IN /\ arrays_' = r.arrays
          /\ op' = [NoOp EXCEPT !.name = "getComponent", !.ok = ~r.ret.isNull,
                                 !.threw = r.threw]
    /\ UNCHANGED <<entities_, issued, destroyed, pending, keepHistory, sysVars, profiler, auxVars>>

WGetComponentConst(t, e) ==
    /\ LET r == World_getComponentConst(arrays_, t, e)
       IN /\ arrays_' = r.arrays
          /\ op' = [NoOp EXCEPT !.name = "getComponentConst", !.ok = ~r.ret.isNull,
                                 !.threw = r.threw]
    /\ UNCHANGED <<entities_, issued, destroyed, pending, keepHistory, sysVars, profiler, auxVars>>

WClear ==
    /\ entities_' = EntityManager_clear(entities_)
    /\ arrays_' = <<>>
    /\ op' = [NoOp EXCEPT !.name = "clear"]
    /\ pending' = <<>>
    /\ issued' = IF keepHistory THEN issued ELSE {}
    /\ destroyed' = IF keepHistory THEN destroyed ELSE {}
    /\ UNCHANGED <<keepHistory, sysVars, profiler, auxVars>>

InitWorld ==
    /\ entities_ = EmptyManager
    /\ arrays_ = <<>>
    /\ op = NoOp
    /\ issued = {}
    /\ destroyed = {}
    /\ pending = <<>>
    /\ keepHistory = FALSE
    /\ InitSysProfiler

NextWorld ==
    \/ WCreateEntity
    \/ \E e \in WorldHandles \cup {INVALID_ENTITY} : WDestroyEntity(e)
    \/ \E t \in TypeIds, e \in WorldHandles, v \in WorldValues : WAddComponent(t, e, v)
    \/ \E t \in TypeIds, e \in WorldHandles : WRemoveComponent(t, e)
    \/ \E t \in TypeIds : WRegisterComponent(t)
    \/ \E t \in TypeIds, e \in WorldHandles : WHasComponent(t, e)
    \/ \E t \in TypeIds, e \in WorldHandles : WGetComponent(t, e)
    \/ \E t \in TypeIds, e \in WorldHandles : WGetComponentConst(t, e)
    \/ WClear

SpecWorld == InitWorld /\ [][NextWorld]_vars

\* =========================================================================
\* Query<A, B> (query.hpp)
\* =========================================================================
\* Largest dense size the query specification lets addComponent grow an array to.
QueryMaxDense == 3

\* Query(registry): the constructor takes getArray<Components>()... from the
\* non-const registry, which registers every queried type; the registry afterwards
Query_ctor(arrays, first, second) == getArray(getArray(arrays, first), second)

\* matchesAll(entity): has(entity) in every queried array
matchesAll(arrays, first, second, entity) ==
    has(arrays[first], entity) /\ has(arrays[second], entity)

\* forEach(func): the entities func is called with, in call order.  The primary
\* array is the first queried one; its dense entries are walked from 0 to
\* size - 1 and func is called for those that matchesAll.
Query_forEach(arrays, first, second) ==
    SelectSeq(arrays[first].denseEntities_,
              LAMBDA entity : matchesAll(arrays, first, second, entity))

\* World::addComponent in the query specification (its own dense bound)
QAddComponent(t, e, v) ==
    /\ LET a == getArray(arrays_, t)[t]
       IN has(a, e) \/ size(a) < QueryMaxDense
    /\ arrays_' = World_addComponent(arrays_, t, e, v)
    /\ op' = [NoOp EXCEPT !.name = "addComponent", !.ty = t]
    /\ UNCHANGED <<entities_, issued, destroyed, pending, keepHistory, sysVars, profiler, auxVars>>

\* world.query<First, Second>().forEach(func)
QForEach(first, second) ==
    /\ arrays_' = Query_ctor(arrays_, first, second)
    /\ op' = [NoOp EXCEPT !.name = "forEach", !.ty = first,
                           !.seq = Query_forEach(arrays_', first, second)]
    /\ UNCHANGED <<entities_, issued, destroyed, pending, keepHistory, sysVars, profiler, auxVars>>

NextQuery ==
    \/ WCreateEntity
    \/ \E e \in WorldHandles : WDestroyEntity(e)
    \/ \E t \in TypeIds, e \in WorldHandles, v \in WorldValues : QAddComponent(t, e, v)
    \/ \E t \in TypeIds, e \in WorldHandles : WRemoveComponent(t, e)
    \/ QForEach(CompA, CompB)
    \/ QForEach(CompB, CompA)

SpecQuery == InitWorld /\ [][NextQuery]_vars

\* =========================================================================
\* SystemRegistry (system.hpp)
\* =========================================================================
\* Largest number of system objects the specification lets be constructed.
MaxSystemsMade == 3

\* Type-ids and display names of the systems of the model.  The name is a
\* constructor argument, so it is independent of the type.
SystemIds == {"S1", "S2"}
SystemNames == {"n1", "n2"}

\* A freshly constructed System<Derived>: enabled_ = true.  uid is the identity
\* of the object (its address in the source).
NewSystem(uid, id, name) == [uid |-> uid, id |-> id, name |-> name, enabled |-> TRUE]

Call(fn, system) == [fn |-> fn, uid |-> system.uid]

\* registerSystem<T>(args...): systems_.push_back; no init is called
registerSystem(systems, system) == [systems |-> Append(systems, system), calls |-> <<>>]

\* The position the loop over systems_ stops at: the first system with this
\* systemId() (with this name()), 0 when the loop runs to the end.
FindById(systems, id) ==
    LET m == {i \in 1..Len(systems) : systems[i].id = id}
    IN IF m = {} THEN 0 ELSE CHOOSE i \in m : \A j \in m : i <= j
FindByName(systems, name) ==
    LET m == {i \in 1..Len(systems) : systems[i].name = name}
    IN IF m = {} THEN 0 ELSE CHOOSE i \in m : \A j \in m : i <= j

\* The found branch of a replacement at position k: shutdown on the old system,
\* the new system stored in its slot, init on the new system.
ReplaceAt(systems, k, system) ==
    [systems |-> [systems EXCEPT ![k] = system],
     calls |-> <<Call("shutdown", systems[k]), Call("init", system)>>]

\* A replacement that erases the old system and appends the new one.
replaceSystemMovesToEnd(systems, id, system) ==
    LET k == FindById(systems, id)
    IN IF k # 0
       THEN [systems |-> Append(SubSeq(systems, 1, k - 1) \o SubSeq(systems, k + 1, Len(systems)),
                                system),
             calls |-> <<Call("shutdown", systems[k]), Call("init", system)>>]
       ELSE registerSystem(systems, system)
\* replaceSystem<T, NewT>(world, args...)
replaceSystem(systems, id, system) ==
    LET k == FindById(systems, id)
    IN IF k # 0 THEN ReplaceAt(systems, k, system) ELSE registerSystem(systems, system)

\* A replacement by name that initializes the new system before it shuts the
\* old one down.
replaceSystemByNameInitFirst(systems, name, system) ==
    LET k == FindByName(systems, name)
    IN IF k # 0
       THEN [systems |-> [systems EXCEPT ![k] = system],
             calls |-> <<Call("init", system), Call("shutdown", systems[k])>>]
       ELSE registerSystem(systems, system)
\* replaceSystemByName<NewT>(world, name, args...)
replaceSystemByName(systems, name, system) ==
    LET k == FindByName(systems, name)
    IN IF k # 0 THEN ReplaceAt(systems, k, system) ELSE registerSystem(systems, system)

\* initAll(world)
initAll(systems) ==
    [systems |-> systems, calls |-> [i \in 1..Len(systems) |-> Call("init", systems[i])]]

\* A shutdown that walks the registry front to back.
shutdownAllForward(systems) ==
    [systems |-> systems, calls |-> [i \in 1..Len(systems) |-> Call("shutdown", systems[i])]]
\* shutdownAll(world): rbegin to rend
shutdownAll(systems) ==
    [systems |-> systems,
     calls |-> [i \in 1..Len(systems) |-> Call("shutdown", systems[Len(systems) + 1 - i])]]

\* What the update of the system in slot i does to the registry: effects[i] is
\* the slot whose enabled flag it flips through the World it is handed
\* (getSystem<T>()->setEnabled), 0 when it touches no flag.
UpdateEffect(systems, target) ==
    IF target \in 1..Len(systems)
    THEN [systems EXCEPT ![target].enabled = ~@]
    ELSE systems
\* The effects explored: in one tick at most one system's update flips a flag.
EffectOf(systems, j, target) == [i \in 1..Len(systems) |-> IF i = j THEN target ELSE 0]
Effects(systems) ==
    {EffectOf(systems, j, target) : j \in 1..Len(systems), target \in 0..Len(systems)}
        \cup {[i \in 1..Len(systems) |-> 0]}

\* The loop of an updateAll that does not look at the enabled flag.
RECURSIVE updateAllIgnoresEnabledFrom(_, _, _, _)
updateAllIgnoresEnabledFrom(systems, i, effects, log) ==
    IF i > Len(systems)
    THEN [systems |-> systems, calls |-> log]
    ELSE updateAllIgnoresEnabledFrom(UpdateEffect(systems, effects[i]), i + 1, effects,
                                     Append(log, Call("update", systems[i])))
\* The loop of updateAll from slot i on
RECURSIVE updateAllFrom(_, _, _, _)
updateAllFrom(systems, i, effects, log) ==
    IF i > Len(systems)
    THEN [systems |-> systems, calls |-> log]
    ELSE IF systems[i].enabled
         THEN updateAllFrom(UpdateEffect(systems, effects[i]), i + 1, effects,
                            Append(log, Call("update", systems[i])))
         ELSE updateAllFrom(systems, i + 1, effects, log)

\* An updateAll that does not look at the enabled flag.
updateAllIgnoresEnabled(systems, effects) ==
    updateAllIgnoresEnabledFrom(systems, 1, effects, <<>>)
\* updateAll(world, dt)
updateAll(systems, effects) == updateAllFrom(systems, 1, effects, <<>>)

\* ---------------------------------------------- SystemRegistry specification
SRegisterSystem(id, name) ==
    /\ nextSystem <= MaxSystemsMade
    /\ LET r == registerSystem(systems_, NewSystem(nextSystem, id, name))
       IN /\ systems_' = r.systems
          /\ calls' = r.calls
    /\ nextSystem' = nextSystem + 1
    /\ op' = [NoOp EXCEPT !.name = "registerSystem"]
    /\ UNCHANGED <<entities_, arrays_, issued, destroyed, pending, keepHistory, profiler, auxVars>>

SReplaceSystem(id, newId, name) ==
    /\ nextSystem <= MaxSystemsMade
    /\ LET r == replaceSystem(systems_, id, NewSystem(nextSystem, newId, name))
       IN /\ systems_' = r.systems
          /\ calls' = r.calls
    /\ nextSystem' = nextSystem + 1
    /\ op' = [NoOp EXCEPT !.name = "replaceSystem", !.key = id]
    /\ UNCHANGED <<entities_, arrays_, issued, destroyed, pending, keepHistory, profiler, auxVars>>

SReplaceSystemByName(name, newId, newName) ==
    /\ nextSystem <= MaxSystemsMade
    /\ LET r == replaceSystemByName(systems_, name, NewSystem(nextSystem, newId, newName))
       IN /\ systems_' = r.systems
          /\ calls' = r.calls
    /\ nextSystem' = nextSystem + 1
    /\ op' = [NoOp EXCEPT !.name = "replaceSystemByName", !.key = name]
    /\ UNCHANGED <<entities_, arrays_, issued, destroyed, pending, keepHistory, profiler, auxVars>>

SSetEnabled(i, enabled) ==
    /\ i \in 1..Len(systems_)
    /\ systems_' = [systems_ EXCEPT ![i].enabled = enabled]
    /\ calls' = <<>>
    /\ op' = [NoOp EXCEPT !.name = "setEnabled"]
    /\ UNCHANGED <<entities_, arrays_, issued, destroyed, pending, keepHistory,
                   nextSystem, profiler, auxVars>>

SInitAll ==
    /\ LET r == initAll(systems_)
       IN /\ systems_' = r.systems
          /\ calls' = r.calls
    /\ op' = [NoOp EXCEPT !.name = "initAll"]
    /\ UNCHANGED <<entities_, arrays_, issued, destroyed, pending, keepHistory,
                   nextSystem, profiler, auxVars>>

SUpdateAll(effects) ==
    /\ LET r == updateAll(systems_, effects)
       IN /\ systems_' = r.systems
          /\ calls' = r.calls
    /\ op' = [NoOp EXCEPT !.name = "updateAll"]
    /\ UNCHANGED <<entities_, arrays_, issued, destroyed, pending, keepHistory,
                   nextSystem, profiler, auxVars>>

SShutdownAll ==
    /\ LET r == shutdownAll(systems_)
       IN /\ systems_' = r.systems
          /\ calls' = r.calls
    /\ op' = [NoOp EXCEPT !.name = "shutdownAll"]
    /\ UNCHANGED <<entities_, arrays_, issued, destroyed, pending, keepHistory,
                   nextSystem, profiler, auxVars>>

\* SystemRegistry::clear()
SClear ==
    /\ systems_' = <<>>
    /\ calls' = <<>>
    /\ op' = [NoOp EXCEPT !.name = "clear"]
    /\ UNCHANGED <<entities_, arrays_, issued, destroyed, pending, keepHistory,
                   nextSystem, profiler, auxVars>>

NextSystems ==
    \/ \E id \in SystemIds, name \in SystemNames : SRegisterSystem(id, name)
    \/ \E id \in SystemIds, newId \in SystemIds, name \in SystemNames :
           SReplaceSystem(id, newId, name)
    \/ \E name \in SystemNames, newId \in SystemIds, newName \in SystemNames :
           SReplaceSystemByName(name, newId, newName)
    \/ \E i \in 1..MaxSystemsMade, enabled \in BOOLEAN : SSetEnabled(i, enabled)
    \/ SInitAll
    \/ \E effects \in Effects(systems_) : SUpdateAll(effects)
    \/ SShutdownAll
    \/ SClear

SpecSystems == InitWorld /\ [][NextSystems]_vars

\* =========================================================================
\* Profiler (profiler.cpp)
\* =========================================================================
\* Largest history size handed to initProfiler, and largest value the
\* specification lets the frame counter reach.
MaxHistorySize == 2
MaxFrames == 3

\* initProfiler(historySize): the frame history is reserved, not cleared
initProfiler(p, historySize) ==
    [p EXCEPT !.historySize = historySize, !.frameNumber = 0, !.initialized = TRUE]

\* shutdownProfiler()
shutdownProfiler(p) ==
    [p EXCEPT !.frameHistory = <<>>, !.currentZones = <<>>, !.zoneStartTimes = <<>>,
              !.initialized = FALSE]

\* A beginFrame that leaves the frame number of the fresh FrameStats at 0.
beginFrameUnstamped(p, t) ==
    IF ~p.initialized
    THEN p
    ELSE [p EXCEPT !.frameStart = t, !.currentFrame = FrameStats(0),
                   !.currentZones = <<>>, !.zoneStartTimes = <<>>]
\* beginFrame(), Clock::now() reading t
beginFrame(p, t) ==
    IF ~p.initialized
    THEN p
    ELSE [p EXCEPT !.frameStart = t, !.currentFrame = FrameStats(p.frameNumber),
                   !.currentZones = <<>>, !.zoneStartTimes = <<>>]

\* frameHistory.erase(frameHistory.begin()) on an empty vector is undefined
\* behaviour (reached when historySize is 0).  The outcomes: the process ends;
\* or it goes on and the push_back that follows leaves the vector empty; or it
\* leaves it with the pushed entry.  The counter is incremented when the
\* process goes on.
EraseOnEmptyOutcomes(p) ==
    {[p EXCEPT !.crashed = TRUE],
     [p EXCEPT !.frameHistory = <<>>, !.frameNumber = @ + 1],
     [p EXCEPT !.frameHistory = <<p.currentFrame>>, !.frameNumber = @ + 1]}

\* endFrame(), Clock::now() reading t: the states it can leave the profiler in
endFrame(p, t) ==
    IF ~p.initialized
    THEN {p}
    ELSE LET q == [p EXCEPT !.currentFrame.totalTime = t - p.frameStart]
         IN IF Len(q.frameHistory) >= q.historySize
            THEN IF q.frameHistory = <<>>
                 THEN EraseOnEmptyOutcomes(q)
                 ELSE {[q EXCEPT !.frameHistory = Append(Tail(q.frameHistory), q.currentFrame),
                                 !.frameNumber = @ + 1]}
            ELSE {[q EXCEPT !.frameHistory = Append(q.frameHistory, q.currentFrame),
                            !.frameNumber = @ + 1]}

\* resetProfilerStats()
resetProfilerStats(p) == [p EXCEPT !.frameHistory = <<>>]

\* ------------------------------------------------- Profiler specification
PInitProfiler(historySize) ==
    /\ ~profiler.crashed
    /\ profiler' = initProfiler(profiler, historySize)
    /\ op' = [NoOp EXCEPT !.name = "initProfiler"]
    /\ UNCHANGED <<entities_, arrays_, issued, destroyed, pending, keepHistory, sysVars, auxVars>>

PShutdownProfiler ==
    /\ ~profiler.crashed
    /\ profiler' = shutdownProfiler(profiler)
    /\ op' = [NoOp EXCEPT !.name = "shutdownProfiler"]
    /\ UNCHANGED <<entities_, arrays_, issued, destroyed, pending, keepHistory, sysVars, auxVars>>

PBeginFrame ==
    /\ ~profiler.crashed
    /\ profiler' = beginFrame(profiler, now)
    /\ op' = [NoOp EXCEPT !.name = "beginFrame"]
    /\ UNCHANGED <<entities_, arrays_, issued, destroyed, pending, keepHistory, sysVars, auxVars>>

PEndFrame ==
    /\ ~profiler.crashed
    /\ profiler.frameNumber < MaxFrames
    /\ profiler' \in endFrame(profiler, now)
    /\ op' = [NoOp EXCEPT !.name = "endFrame"]
    /\ UNCHANGED <<entities_, arrays_, issued, destroyed, pending, keepHistory, sysVars, auxVars>>

PResetProfilerStats ==
    /\ ~profiler.crashed
    /\ profiler' = resetProfilerStats(profiler)
    /\ op' = [NoOp EXCEPT !.name = "resetProfilerStats"]
    /\ UNCHANGED <<entities_, arrays_, issued, destroyed, pending, keepHistory, sysVars, auxVars>>

NextProfiler ==
    \/ \E historySize \in 0..MaxHistorySize : PInitProfiler(historySize)
    \/ PShutdownProfiler
    \/ PBeginFrame
    \/ PEndFrame
    \/ PResetProfilerStats

SpecProfiler == InitWorld /\ [][NextProfiler]_vars

\* ------------------------------------------------------- zones, the clock
\* Largest number of zones the specification lets a frame hold, and largest
\* reading of the clock.
MaxZones == 2
MaxClock == 2

\* ProfileZone as beginZone fills it (name, file and line are left out)
ProfileZone(zoneId) == [id |-> zoneId, totalTime |-> 0, selfTime |-> 0, callCount |-> 1]

\* A beginZone without the initialized guard.
beginZoneUnguarded(p, t) ==
    [p |-> [p EXCEPT !.currentZones = Append(@, ProfileZone(Len(p.currentZones))),
                     !.zoneStartTimes = Append(@, t)],
     ret |-> Len(p.currentZones)]
\* beginZone(name, file, line), Clock::now() reading t: the profiler afterwards
\* and the id returned
beginZone(p, t) ==
    IF ~p.initialized
    THEN [p |-> p, ret |-> 0]
    ELSE [p |-> [p EXCEPT !.currentZones = Append(@, ProfileZone(Len(p.currentZones))),
                          !.zoneStartTimes = Append(@, t)],
          ret |-> Len(p.currentZones)]

\* An endZone that closes the zone begun last, whatever id it is handed.
endZoneClosesLast(p, zoneId, t) ==
    IF ~p.initialized \/ zoneId >= Len(p.currentZones)
    THEN p
    ELSE LET k == Len(p.currentZones)
         IN [p EXCEPT !.currentZones[k].totalTime = t - p.zoneStartTimes[k],
                      !.currentZones[k].selfTime = t - p.zoneStartTimes[k]]
\* endZone(zoneId), Clock::now() reading t
endZone(p, zoneId, t) ==
    IF ~p.initialized
    THEN p
    ELSE IF zoneId >= Len(p.currentZones)
         THEN p
         ELSE [p EXCEPT !.currentZones[zoneId + 1].totalTime = t - p.zoneStartTimes[zoneId + 1],
                        !.currentZones[zoneId + 1].selfTime = t - p.zoneStartTimes[zoneId + 1]]

PBeginZone ==
    /\ ~profiler.crashed
    /\ Len(profiler.currentZones) < MaxZones
    /\ LET r == beginZone(profiler, now)
       IN /\ profiler' = r.p
          /\ op' = [NoOp EXCEPT !.name = "beginZone", !.cnt = r.ret]
    /\ UNCHANGED <<entities_, arrays_, issued, destroyed, pending, keepHistory, sysVars, auxVars>>

PEndZone(zoneId) ==
    /\ ~profiler.crashed
    /\ profiler' = endZone(profiler, zoneId, now)
    /\ op' = [NoOp EXCEPT !.name = "endZone", !.cnt = zoneId]
    /\ UNCHANGED <<entities_, arrays_, issued, destroyed, pending, keepHistory, sysVars, auxVars>>

\* Time passes: the next reading of the clock is later.
ClockAdvance ==
    /\ now < MaxClock
    /\ now' = now + 1
    /\ op' = [NoOp EXCEPT !.name = "clock"]
    /\ UNCHANGED <<entities_, arrays_, issued, destroyed, pending, keepHistory, sysVars,
                   profiler, simdBuild, bus, pub, concVars>>

NextZones ==
    \/ PInitProfiler(1)
    \/ PShutdownProfiler
    \/ PBeginFrame
    \/ PEndFrame
    \/ PBeginZone
    \/ \E zoneId \in 0..MaxZones : PEndZone(zoneId)
    \/ ClockAdvance

SpecZones == InitWorld /\ [][NextZones]_vars

\* ------------------------------------------------- allocation recording
\* Largest byte count of one recorded allocation and largest value the
\* specification lets the in-flight memory counter reach.
MaxBytes == 2
MaxMemory == 3

\* recordAllocation(bytes, tag): no initialized guard
recordAllocation(p, bytes) ==
    [p EXCEPT !.currentFrame.memoryUsed = @ + bytes]

\* recordDeallocation(bytes, tag): subtracts when the counter covers bytes,
\* and otherwise leaves the counter as it is
recordDeallocation(p, bytes) ==
    IF p.currentFrame.memoryUsed >= bytes
    THEN [p EXCEPT !.currentFrame.memoryUsed = @ - bytes]
    ELSE p

PRecordAllocation(bytes) ==
    /\ ~profiler.crashed
    /\ profiler.currentFrame.memoryUsed + bytes <= MaxMemory
    /\ profiler' = recordAllocation(profiler, bytes)
    /\ op' = [NoOp EXCEPT !.name = "recordAllocation", !.cnt = bytes]
    /\ UNCHANGED <<entities_, arrays_, issued, destroyed, pending, keepHistory, sysVars, auxVars>>

PRecordDeallocation(bytes) ==
    /\ ~profiler.crashed
    /\ profiler' = recordDeallocation(profiler, bytes)
    /\ op' = [NoOp EXCEPT !.name = "recordDeallocation", !.cnt = bytes]
    /\ UNCHANGED <<entities_, arrays_, issued, destroyed, pending, keepHistory, sysVars, auxVars>>

NextMemory ==
    \/ PInitProfiler(1)
    \/ PShutdownProfiler
    \/ PBeginFrame
    \/ PEndFrame
    \/ \E bytes \in 0..MaxBytes : PRecordAllocation(bytes)
    \/ \E bytes \in 0..MaxBytes : PRecordDeallocation(bytes)

SpecMemory == InitWorld /\ [][NextMemory]_vars

\* ------------------------------------------------------------ statistics
\* Frame times are counted in ticks of the profiler's Duration; the
\* 100-frame scenario counts 1000 ticks to the millisecond.
\* Largest number of frames and largest frame time of the drawn histories.
MaxStatFrames == 3
MaxFrameTime == 3
Millisecond == 1000
ScenarioFrames == 100
\* Duration::max(), the initial minFrameTime
DurationMax == 2147483647

\* ProfilerStats{} (the frame rates and hardware averages are left out)
DefaultStats == [avgFrameTime |-> 0, minFrameTime |-> DurationMax, maxFrameTime |-> 0,
                 p95FrameTime |-> 0, p99FrameTime |-> 0, spikeCount |-> 0,
                 spikeThreshold |-> 0, sampleCount |-> 0]

\* The frame times of a history, in history order
TimesOf(history) == [i \in 1..Len(history) |-> history[i].totalTime]

\* The sum of times[lo..hi], halving the range
RECURSIVE SumRange(_, _, _)
SumRange(times, lo, hi) ==
    IF lo > hi THEN 0
    ELSE IF lo = hi THEN times[lo]
         ELSE LET mid == (lo + hi) \div 2
              IN SumRange(times, lo, mid) + SumRange(times, mid + 1, hi)
\* total, the sum of every frame time
SumTimes(times) == SumRange(times, 1, Len(times))

\* The min/max loop of getProfilerStats started from m: the least
\* (greatest) of m and the frame times
MinFrom(m, times) ==
    CHOOSE x \in {m} \cup {times[i] : i \in 1..Len(times)} :
        x <= m /\ \A i \in 1..Len(times) : x <= times[i]
MaxFrom(m, times) ==
    CHOOSE x \in {m} \cup {times[i] : i \in 1..Len(times)} :
        x >= m /\ \A i \in 1..Len(times) : x >= times[i]

\* std::sort of the copied frame times: each time goes to the position that
\* counts the smaller times and the equal times before it
SortTimes(times) ==
    LET n == Len(times)
        position == [i \in 1..n |->
                        1 + Cardinality({j \in 1..n : times[j] < times[i]})
                          + Cardinality({j \in 1..(i - 1) : times[j] = times[i]})]
    IN [k \in 1..n |-> times[CHOOSE i \in 1..n : position[i] = k]]

\* A percentile index taken from the size instead of the size minus one.
percentileIndexOfSize(percent, n) ==
    IF (percent * n) \div 100 > n - 1 THEN n - 1 ELSE (percent * n) \div 100
\* static_cast<usize>(p * static_cast<double>(size - 1)) for p = percent/100:
\* the double product truncated toward zero (0-based index)
percentileIndex(percent, n) == (percent * (n - 1)) \div 100

\* The number of frame times above the threshold
CountAbove(threshold, times) ==
    Cardinality({i \in 1..Len(times) : times[i] > threshold})

\* A getProfilerStats that reads the percentiles from the unsorted history.
getProfilerStatsUnsorted(p) ==
    IF p.frameHistory = <<>> THEN DefaultStats
    ELSE LET times == TimesOf(p.frameHistory)
             n == Len(times)
             avg == SumTimes(times) \div n
         IN [avgFrameTime |-> avg,
             minFrameTime |-> MinFrom(DurationMax, times),
             maxFrameTime |-> MaxFrom(0, times),
             p95FrameTime |-> times[percentileIndex(95, n) + 1],
             p99FrameTime |-> times[percentileIndex(99, n) + 1],
             spikeCount |-> CountAbove(avg * 2, times),
             spikeThreshold |-> avg * 2,
             sampleCount |-> n]
\* getProfilerStats()
getProfilerStats(p) ==
    IF p.frameHistory = <<>> THEN DefaultStats
    ELSE LET times == TimesOf(p.frameHistory)
             n == Len(times)
             avg == SumTimes(times) \div n
             sortedTimes == SortTimes(times)
         IN [avgFrameTime |-> avg,
             minFrameTime |-> MinFrom(DurationMax, times),
             maxFrameTime |-> MaxFrom(0, times),
             p95FrameTime |-> sortedTimes[percentileIndex(95, n) + 1],
             p99FrameTime |-> sortedTimes[percentileIndex(99, n) + 1],
             spikeCount |-> CountAbove(avg * 2, times),
             spikeThreshold |-> avg * 2,
             sampleCount |-> n]

PGetProfilerStats ==
    /\ ~profiler.crashed
    /\ op' = [NoOp EXCEPT !.name = "getProfilerStats", !.stats = getProfilerStats(profiler)]
    /\ UNCHANGED <<entities_, arrays_, issued, destroyed, pending, keepHistory, sysVars,
                   profiler, auxVars>>

\* The history after frames of the given times were begun and ended
HistoryOf(times) ==
    [i \in 1..Len(times) |-> [frameNumber |-> i - 1, totalTime |-> times[i], memoryUsed |-> 0]]

\* Frame i of the 100-frame scenario took i milliseconds.
ScenarioTimes == [i \in 1..ScenarioFrames |-> i * Millisecond]

\* The frame-time sequences the statistics are computed for
DrawnTimes ==
    UNION {[1..n -> 0..MaxFrameTime] : n \in 0..MaxStatFrames} \cup {ScenarioTimes}

\* An initialized profiler whose history holds frames of the drawn times
InitStats ==
    /\ entities_ = EmptyManager
    /\ arrays_ = <<>>
    /\ op = NoOp
    /\ issued = {}
    /\ destroyed = {}
    /\ pending = <<>>
    /\ keepHistory = FALSE
    /\ systems_ = <<>>
    /\ calls = <<>>
    /\ nextSystem = 1
    /\ \E times \in DrawnTimes :
           profiler = [ProfilerState EXCEPT
                           !.initialized = TRUE,
                           !.historySize = ScenarioFrames,
                           !.frameHistory = HistoryOf(times),
                           !.frameNumber = Len(times),
                           !.currentFrame = IF times = <<>> THEN FrameStats(0)
                                            ELSE HistoryOf(times)[Len(times)]]
    /\ now = 0
    /\ simdBuild = FALSE
    /\ bus = EmptyBus
    /\ pub = NoPublish
    /\ threads = [t \in ThreadIds |-> IdleThread]
    /\ tracker = TaggedMemoryTracker
    /\ hist = NoHistory

NextStats ==
    \/ PGetProfilerStats
    \/ PResetProfilerStats

SpecStats == InitStats /\ [][NextStats]_vars

\* =========================================================================
\* Variant systems (system.hpp, ecs.cpp) and the Optimizer (window_sdl.cpp)
\* =========================================================================
\* Largest number of variant systems the specification registers.
MaxVariantSystems == 2

\* enum class SystemVariant
SystemVariants == {"Scalar", "SIMD", "GPU", "Approximate"}
VariantSystemIds == {"PhysicsSystem", "VelocitySystem"}

\* The entity counts the specification spawns and destroys down to: both
\* sides of each threshold of the Optimizer, and the 600 and 50 of the
\* variant-switching scenario.
EntityCounts == {50, 99, 100, 101, 499, 500, 501, 600}

\* The thresholds of Optimizer::update
HighEntityCount == 500
LowEntityCount == 100

\* PhysicsSystem() and VelocitySystem(): simd tells whether the build defines
\* AUTOPHAGE_SIMD_AVX2 or AUTOPHAGE_SIMD_SSE2
NewVariantSystem(uid, id, simd) ==
    [uid |-> uid, id |-> id, name |-> id, enabled |-> TRUE,
     variant |-> IF id = "VelocitySystem" /\ simd THEN "SIMD" ELSE "Scalar"]

\* availableVariants()
availableVariants(system, simd) ==
    IF system.id = "PhysicsSystem"
    THEN {"Scalar", "SIMD"}
    ELSE IF simd THEN {"Scalar", "SIMD"} ELSE {"Scalar"}

\* A switchVariant that takes whatever variant it is handed.
switchVariantUnchecked(system, variant, simd) ==
    [system |-> [system EXCEPT !.variant = variant], ret |-> TRUE]
\* switchVariant(variant): the system afterwards and the boolean returned
switchVariant(system, variant, simd) ==
    IF system.id = "PhysicsSystem"
    THEN IF variant = "Scalar" \/ variant = "SIMD"
         THEN [system |-> [system EXCEPT !.variant = variant], ret |-> TRUE]
         ELSE [system |-> system, ret |-> FALSE]
    ELSE IF \E v \in availableVariants(system, simd) : v = variant
         THEN [system |-> [system EXCEPT !.variant = variant], ret |-> TRUE]
         ELSE [system |-> system, ret |-> FALSE]

\* getSystem<T>(): the position of the first system of the type, 0 for nullptr
getSystem(systems, id) == FindById(systems, id)

\* Optimizer::update(world): the systems afterwards and the positions of the
\* systems switchVariant was called on, in call order
Optimizer_update(systems, entityCount, simd) ==
    LET physicsSystem == getSystem(systems, "PhysicsSystem")
    IN IF physicsSystem = 0
       THEN [systems |-> systems, switched |-> <<>>]
       ELSE LET current == systems[physicsSystem].variant
            IN IF entityCount > HighEntityCount /\ current = "Scalar"
               THEN [systems |-> [systems EXCEPT ![physicsSystem] =
                                     switchVariant(@, "SIMD", simd).system],
                     switched |-> <<physicsSystem>>]
               ELSE IF entityCount < LowEntityCount /\ current = "SIMD"
                    THEN [systems |-> [systems EXCEPT ![physicsSystem] =
                                          switchVariant(@, "Scalar", simd).system],
                          switched |-> <<physicsSystem>>]
                    ELSE [systems |-> systems, switched |-> <<>>]

\* The manager after n more create() calls, none of which finds a free slot
SpawnedManager(em, n) ==
    [generations_ |-> em.generations_ \o [i \in 1..n |-> 1],
     alive_ |-> em.alive_ \o [i \in 1..n |-> TRUE],
     freeList_ |-> em.freeList_,
     aliveCount_ |-> em.aliveCount_ + n]

\* The manager, all of whose slots are alive, after destroy() of the entities
\* of the highest slots, last slot first, until k are alive
DestroyedDownTo(em, k) ==
    LET cap == Len(em.generations_)
    IN [generations_ |-> em.generations_,
        alive_ |-> [i \in 1..cap |-> i <= k],
        freeList_ |-> [j \in 1..(cap - k) |-> cap - j],
        aliveCount_ |-> k]

\* world.registerSystem<PhysicsSystem>() / <VelocitySystem>()
CRegisterSystem(id) ==
    /\ Len(systems_) < MaxVariantSystems
    /\ LET r == registerSystem(systems_, NewVariantSystem(nextSystem, id, simdBuild))
       IN /\ systems_' = r.systems
          /\ calls' = r.calls
    /\ nextSystem' = nextSystem + 1
    /\ op' = [NoOp EXCEPT !.name = "registerSystem"]
    /\ UNCHANGED <<entities_, arrays_, issued, destroyed, pending, keepHistory, profiler, auxVars>>

\* systems_[i]->switchVariant(variant)
CSwitchVariant(i, variant) ==
    /\ i \in 1..Len(systems_)
    /\ LET r == switchVariant(systems_[i], variant, simdBuild)
       IN /\ systems_' = [systems_ EXCEPT ![i] = r.system]
          /\ op' = [NoOp EXCEPT !.name = "switchVariant", !.cnt = i, !.key = variant,
                                !.ok = r.ret]
    /\ UNCHANGED <<entities_, arrays_, issued, destroyed, pending, keepHistory, calls,
                   nextSystem, profiler, auxVars>>

\* One controller tick
COptimizerUpdate ==
    /\ LET r == Optimizer_update(systems_, entities_.aliveCount_, simdBuild)
       IN /\ systems_' = r.systems
          /\ op' = [NoOp EXCEPT !.name = "optimizerUpdate", !.seq = r.switched,
                                !.cnt = entities_.aliveCount_]
    /\ UNCHANGED <<entities_, arrays_, issued, destroyed, pending, keepHistory, calls,
                   nextSystem, profiler, auxVars>>

\* createEntity() until n entities are alive, from a world without entities
CSpawn(n) ==
    /\ entities_ = EmptyManager
    /\ entities_' = SpawnedManager(entities_, n)
    /\ op' = [NoOp EXCEPT !.name = "spawn", !.cnt = n]
    /\ UNCHANGED <<arrays_, issued, destroyed, pending, keepHistory, sysVars, profiler, auxVars>>

\* destroyEntity() until k entities are alive
CDestroyDownTo(k) ==
    /\ entities_.freeList_ = <<>>
    /\ k < entities_.aliveCount_
    /\ entities_' = DestroyedDownTo(entities_, k)
    /\ op' = [NoOp EXCEPT !.name = "destroyDownTo", !.cnt = k]
    /\ UNCHANGED <<arrays_, issued, destroyed, pending, keepHistory, sysVars, profiler, auxVars>>

\* World::clear() of the entities
CClearEntities ==
    /\ entities_ # EmptyManager
    /\ entities_' = EntityManager_clear(entities_)
    /\ op' = [NoOp EXCEPT !.name = "clear"]
    /\ UNCHANGED <<arrays_, issued, destroyed, pending, keepHistory, sysVars, profiler, auxVars>>

\* A world without entities and systems, in a build with or without SIMD
InitController ==
    /\ entities_ = EmptyManager
    /\ arrays_ = <<>>
    /\ op = NoOp
    /\ issued = {}
    /\ destroyed = {}
    /\ pending = <<>>
    /\ keepHistory = FALSE
    /\ systems_ = <<>>
    /\ calls = <<>>
    /\ nextSystem = 1
    /\ profiler = ProfilerState
    /\ now = 0
    /\ simdBuild \in BOOLEAN
    /\ bus = EmptyBus
    /\ pub = NoPublish
    /\ threads = [t \in ThreadIds |-> IdleThread]
    /\ tracker = TaggedMemoryTracker
    /\ hist = NoHistory

NextController ==
    \/ \E id \in VariantSystemIds : CRegisterSystem(id)
    \/ \E i \in 1..MaxVariantSystems, variant \in SystemVariants : CSwitchVariant(i, variant)
    \/ COptimizerUpdate
    \/ \E n \in EntityCounts : CSpawn(n)
    \/ \E k \in EntityCounts : CDestroyDownTo(k)
    \/ CClearEntities

SpecController == InitController /\ [][NextController]_vars

\* =========================================================================
\* EventBus (event.hpp)
\* =========================================================================
\* Largest listener id issued and largest number of publish calls in flight.
MaxListenerIds == 3
MaxDispatches == 1

EventTypes == {"E1", "E2"}

\* dispatchers_[type]->listeners, by listener id; empty without a dispatcher
Listeners(b, E) == IF E \in DOMAIN b.dispatchers_ THEN b.dispatchers_[E] ELSE <<>>

\* subscribe<E>(callback): the bus afterwards and the id returned
subscribe(b, E) ==
    [bus |-> [dispatchers_ |-> [t \in (DOMAIN b.dispatchers_) \cup {E} |->
                                   IF t = E THEN Append(Listeners(b, E), b.nextListenerId_)
                                   ELSE b.dispatchers_[t]],
              nextListenerId_ |-> b.nextListenerId_ + 1,
              mutex_ |-> b.mutex_],
     ret |-> b.nextListenerId_]

\* An unsubscribe that erases the id from the list of every event type.
unsubscribeEveryType(b, E, id) ==
    [b EXCEPT !.dispatchers_ =
        [t \in DOMAIN b.dispatchers_ |-> SelectSeq(b.dispatchers_[t], LAMBDA x : x # id)]]
\* unsubscribe<E>(id): std::erase_if on E's listeners, when E has a dispatcher
unsubscribe(b, E, id) ==
    IF E \in DOMAIN b.dispatchers_
    THEN [b EXCEPT !.dispatchers_[E] = SelectSeq(@, LAMBDA x : x # id)]
    ELSE b

\* A copy that takes the callbacks of every event type.
CopyCallbacksOfEveryType(b, E) ==
    LET ids == UNION {{Listeners(b, t)[i] : i \in 1..Len(Listeners(b, t))} : t \in EventTypes}
    IN [k \in 1..Cardinality(ids) |->
           CHOOSE x \in ids : Cardinality({y \in ids : y < x}) = k - 1]
\* The first block of publish<E>: the callbacks copied under the lock
CopyCallbacks(b, E) == Listeners(b, E)

\* A publish that keeps the lock while it runs the callbacks.
LockGuardHeld(b) == [b EXCEPT !.mutex_ = TRUE]
\* The end of the block that holds the lock_guard in publish: the lock is
\* released before the first callback
LockGuardReleased(b) == [b EXCEPT !.mutex_ = FALSE]

\* A loop that walks the type's listener list itself.
LoopCallbacksLive(d, b) == Listeners(b, d.event)
\* The callbacks the loop of publish walks: its local copy
LoopCallbacks(d, b) == d.callbacks

RemoveAt(seq, k) == SubSeq(seq, 1, k - 1) \o SubSeq(seq, k + 1, Len(seq))

BSubscribe(E) ==
    /\ ~bus.mutex_
    /\ bus.nextListenerId_ <= MaxListenerIds
    /\ LET r == subscribe(bus, E)
       IN /\ bus' = r.bus
          /\ pub' = [pub EXCEPT !.owner = Append(@, E)]
          /\ op' = [NoOp EXCEPT !.name = "subscribe", !.key = E, !.cnt = r.ret]
    /\ UNCHANGED <<entities_, arrays_, issued, destroyed, pending, keepHistory, sysVars,
                   profiler, now, simdBuild, concVars>>

BUnsubscribe(E, id) ==
    /\ ~bus.mutex_
    /\ bus' = unsubscribe(bus, E, id)
    /\ pub' = IF \E i \in 1..Len(Listeners(bus, E)) : Listeners(bus, E)[i] = id
              THEN [pub EXCEPT !.unsubscribed = @ \cup {<<E, id>>}]
              ELSE pub
    /\ op' = [NoOp EXCEPT !.name = "unsubscribe"]
    /\ UNCHANGED <<entities_, arrays_, issued, destroyed, pending, keepHistory, sysVars,
                   profiler, now, simdBuild, concVars>>

\* publish<E>(event) up to the release of the lock
BPublishCopy(E) ==
    /\ ~bus.mutex_
    /\ Len(pub.dispatches) < MaxDispatches
    /\ pub' = [pub EXCEPT !.dispatches =
                  Append(@, [event |-> E, callbacks |-> CopyCallbacks(bus, E), done |-> 0])]
    /\ bus' = LockGuardReleased(bus)
    /\ op' = [NoOp EXCEPT !.name = "publish", !.key = E]
    /\ UNCHANGED <<entities_, arrays_, issued, destroyed, pending, keepHistory, sysVars,
                   profiler, now, simdBuild, concVars>>

\* One turn of the loop over the copied callbacks: cb(event), for the callback
\* at position done + 1 of the copy
BPublishInvoke(k) ==
    /\ k \in 1..Len(pub.dispatches)
    /\ pub.dispatches[k].done < Len(LoopCallbacks(pub.dispatches[k], bus))
    /\ pub' = [pub EXCEPT !.dispatches[k].done = @ + 1]
    /\ op' = [NoOp EXCEPT !.name = "invoke"]
    /\ UNCHANGED <<entities_, arrays_, issued, destroyed, pending, keepHistory, sysVars,
                   profiler, now, simdBuild, bus, concVars>>

\* The loop is over and publish returns: seq is every listener it invoked
BPublishReturn(k) ==
    /\ k \in 1..Len(pub.dispatches)
    /\ pub.dispatches[k].done = Len(LoopCallbacks(pub.dispatches[k], bus))
    /\ pub' = [pub EXCEPT !.dispatches = RemoveAt(@, k)]
    /\ op' = [NoOp EXCEPT !.name = "published", !.key = pub.dispatches[k].event,
                          !.seq = LoopCallbacks(pub.dispatches[k], bus)]
    /\ UNCHANGED <<entities_, arrays_, issued, destroyed, pending, keepHistory, sysVars,
                   profiler, now, simdBuild, bus, concVars>>

NextBus ==
    \/ \E E \in EventTypes : BSubscribe(E)
    \/ \E E \in EventTypes, id \in 1..bus.nextListenerId_ : BUnsubscribe(E, id)
    \/ \E E \in EventTypes : BPublishCopy(E)
    \/ \E k \in 1..MaxDispatches : BPublishInvoke(k)
    \/ \E k \in 1..MaxDispatches : BPublishReturn(k)

SpecBus == InitWorld /\ [][NextBus]_vars

\* Largest listener id issued under the specification with fairness.
MaxFairListenerIds == 2

BSubscribeFew(E) ==
    /\ bus.nextListenerId_ <= MaxFairListenerIds
    /\ BSubscribe(E)

NextBusFair ==
    \/ \E E \in EventTypes : BSubscribeFew(E)
    \/ \E E \in EventTypes, id \in 1..bus.nextListenerId_ : BUnsubscribe(E, id)
    \/ \E E \in EventTypes : BPublishCopy(E)
    \/ \E k \in 1..MaxDispatches : BPublishInvoke(k)
    \/ \E k \in 1..MaxDispatches : BPublishReturn(k)

\* The thread that runs a publish keeps running: the loop takes its next turn
\* and the call returns when the loop is over.
SpecBusFair ==
    /\ InitWorld
    /\ [][NextBusFair]_vars
    /\ \A k \in 1..MaxDispatches :
           WF_vars(BPublishInvoke(k)) /\ WF_vars(BPublishReturn(k))

\* =========================================================================
\* World tick (world.hpp)
\* =========================================================================
\* World::update(dt) { updateSystems(dt); } with
\* updateSystems(dt) { systems_.updateAll(*this, dt); }: the registry and its
\* call log afterwards, and the profiler afterwards (it is not touched).
World_update(systems, p, effects) ==
    LET r == updateAll(systems, effects)
    IN [systems |-> r.systems, calls |-> r.calls, profiler |-> p]

WUpdate(effects) ==
    /\ ~profiler.crashed
    /\ LET r == World_update(systems_, profiler, effects)
       IN /\ systems_' = r.systems
          /\ calls' = r.calls
          /\ profiler' = r.profiler
    /\ op' = [NoOp EXCEPT !.name = "update"]
    /\ UNCHANGED <<entities_, arrays_, issued, destroyed, pending, keepHistory, nextSystem, auxVars>>

\* The host's frame loop around the World: a profiler that is initialized and
\* shut down, systems that are registered and switched on and off, and ticks.
NextTick ==
    \/ \E id \in SystemIds, name \in SystemNames : SRegisterSystem(id, name)
    \/ \E i \in 1..MaxSystemsMade, enabled \in BOOLEAN : SSetEnabled(i, enabled)
    \/ \E effects \in Effects(systems_) : WUpdate(effects)
    \/ \E historySize \in 0..MaxHistorySize : PInitProfiler(historySize)
    \/ PShutdownProfiler

SpecTick == InitWorld /\ [][NextTick]_vars

\* ----------------------------------------------------- EntityManager claims
\* C1: create never returns an entity whose (index, generation) pair equals
\* the pair returned by an earlier create on the same manager, over any
\* sequence of EntityManager operations.
C1_CreateNeverRepeats ==
    [][op'.name = "create" => op'.ent \notin issued]_vars

\* C2: an entity returned by create is alive in every state up to its first
\* successful destroy and not alive in every state after it, whatever creates
\* and destroys follow (issued and destroyed hold the entities created and
\* destroyed since the manager was last cleared).
C2_AliveUntilDestroyedThenNever ==
    \A e \in issued : isAlive(entities_, e) <=> e \notin destroyed

\* C3: destroy(e) returns true exactly when is_alive(e) held just before the
\* call; a double destroy, INVALID_ENTITY, a stale generation and an
\* out-of-range index return false, and a false return leaves generations,
\* alive bits, free list and alive count unchanged.
C3_DestroyContract ==
    [][op'.name = "destroy" =>
        /\ op'.ok = isAlive(entities_, op'.e)
        /\ (~op'.ok => entities_' = entities_)
        /\ (op'.e = INVALID_ENTITY => ~op'.ok)
        /\ (op'.e.index >= capacity(entities_) => ~op'.ok)
        /\ (/\ op'.e.index < capacity(entities_)
            /\ entities_.generations_[op'.e.index + 1] # op'.e.generation
            => ~op'.ok)
        /\ (op.name = "destroy" /\ op.ok /\ op.e = op'.e => ~op'.ok)]_vars

\* C4: recycling is LIFO.  Whenever the free list is non-empty, create reuses
\* the slot of the most recently destroyed, not yet reused entity (the last
\* element of the history pending) with that slot's generation incremented by
\* one (in the arithmetic of the generation counter) and allocates no slot;
\* only when the free list is empty does it allocate a fresh slot, whose index
\* is the capacity and whose generation is 1.
C4_LifoRecycling ==
    [][op'.name = "create" =>
        /\ (entities_.freeList_ # <<>>) <=> (pending # <<>>)
        /\ IF entities_.freeList_ # <<>>
           THEN /\ op'.ent.index = pending[Len(pending)]
                /\ op'.ent.generation =
                       (entities_.generations_[op'.ent.index + 1] + 1) % GenMod
                /\ capacity(entities_') = capacity(entities_)
           ELSE /\ op'.ent = [index |-> capacity(entities_), generation |-> 1]
                /\ capacity(entities_') = capacity(entities_) + 1]_vars

\* Two slots were free, create took the later destroyed one (slot 1) and the
\* earlier destroyed one (slot 0) is still waiting.
C4_Witness ==
    /\ op.name = "create"
    /\ op.ent = [index |-> 1, generation |-> 2]
    /\ pending = <<0>>
    /\ entities_.freeList_ = <<0>>

\* C5: create always returns a valid entity (generation >= 1), also when the
\* slot has been recycled as often as the generation counter can count.
C5_CreateReturnsValid ==
    op.name = "create" => isValid(op.ent) /\ op.ent.generation >= 1

\* ---------------------------------------------------- ComponentArray claims
\* C6: after any sequence of set, remove, onEntityDestroyed and clear with
\* arbitrary entities, the dense vectors have equal length and every dense
\* index d satisfies sparse[dense_entities[d].index] = d.
C6_SparseSetInvariant ==
    LET a == arrays_[CompA]
    IN /\ Len(a.denseEntities_) = Len(a.denseComponents_)
       /\ \A d \in 0..(Len(a.denseEntities_) - 1) :
              /\ a.denseEntities_[d + 1].index < Len(a.sparse_)
              /\ a.sparse_[a.denseEntities_[d + 1].index + 1] = d

\* C7: in every reachable array, set(e, v) followed by get(e) returns v; a
\* set on an entity that is already present leaves size unchanged (and get(e)
\* then returns the new value); get(e) is non-null exactly when has(e).
C7_SetThenGet ==
    LET a == arrays_[CompA]
    IN /\ \A e \in CAEntities, v \in Values :
              LET b == set(a, e, v)
              IN /\ get(b, e) = [isNull |-> FALSE, value |-> v]
                 /\ (has(a, e) => size(b) = size(a))
       /\ \A e \in CAEntities : ~get(a, e).isNull <=> has(a, e)

\* The last call was a set on an entity that was already present; the array
\* holds two entities and the value v2 that replaced the first one's.
C7_Witness ==
    LET a == arrays_[CompA]
    IN /\ op.name = "set" /\ op.ok
       /\ size(a) = 2
       /\ a.denseComponents_ = <<"v2", "v1">>
       /\ a.denseEntities_[1] # a.denseEntities_[2]

\* C8: in every reachable array, remove(e) on an entity for which has(e) is
\* false changes nothing, and after any remove(e) has(e) is false, so a second
\* remove(e) leaves the array in the state reached after the first.
C8_RemoveIdempotent ==
    LET a == arrays_[CompA]
    IN \A e \in CAEntities :
           LET b == remove(a, e)
           IN /\ (~has(a, e) => b = a)
              /\ ~has(b, e)
              /\ remove(b, e) = b

\* remove was called on an entity that was not present, with a non-empty array.
C8_Witness ==
    /\ op.name = "remove" /\ ~op.ok
    /\ size(arrays_[CompA]) = 2

\* C9: in every reachable array, when has(e) holds, remove(e) decreases size
\* by one, makes has(e) false, moves the formerly last dense entry into the
\* removed dense position, and leaves has(f) and get(f) unchanged for every
\* other entity f.
C9_SwapRemoveIntegrity ==
    LET a == arrays_[CompA]
    IN \A e \in CAEntities :
           has(a, e) =>
               LET b == remove(a, e)
                   denseIdx == a.sparse_[e.index + 1]
                   lastIdx == size(a) - 1
               IN /\ size(b) = size(a) - 1
                  /\ ~has(b, e)
                  /\ (denseIdx # lastIdx =>
                         /\ b.denseEntities_[denseIdx + 1] = a.denseEntities_[lastIdx + 1]
                         /\ b.denseComponents_[denseIdx + 1] = a.denseComponents_[lastIdx + 1])
                  /\ \A f \in CAEntities \ {e} :
                         /\ has(b, f) = has(a, f)
                         /\ get(b, f) = get(a, f)

\* ------------------------------------------------------------ World claims
\* C10: when World.destroyEntity(e) has destroyed an alive entity e (it
\* returned from a successful EntityManager destroy), has(e) is false in the
\* array of every registered component type: the fan-out over all the
\* registered arrays is complete when the call returns.
C10_DestroyEntityRemovesComponents ==
    op.name = "destroyEntity" /\ op.ok =>
        \A t \in DOMAIN arrays_ : ~has(arrays_[t], op.e)

\* destroyEntity returned true for an entity that had a component in both
\* registered arrays.
C10_Witness ==
    /\ op.name = "destroyEntity" /\ op.ok /\ op.cnt = 2
    /\ DOMAIN arrays_ = TypeIds
    /\ \A t \in TypeIds : ~has(arrays_[t], op.e)

\* C11: a component miss is reported as a value, never as a raised error.  In
\* every reachable world, for every component type T (registered or not) and
\* every handle e without a T component, hasComponent<T>(e) returns false and
\* getComponent<T>(e) (mutable and const) returns null, none of them throws,
\* and the registry is the same after the query as before it.
C11_ComponentMissIsValue ==
    \A t \in TypeIds, e \in WorldHandles \cup {INVALID_ENTITY} :
        ~(isRegistered(arrays_, t) /\ has(arrays_[t], e)) =>
            LET h == World_hasComponent(arrays_, t, e)
                g == World_getComponent(arrays_, t, e)
                gc == World_getComponentConst(arrays_, t, e)
            IN /\ ~h.threw /\ ~h.ret /\ h.arrays = arrays_
               /\ ~gc.threw /\ gc.ret.isNull /\ gc.arrays = arrays_
               /\ ~g.threw /\ g.ret.isNull /\ g.arrays = arrays_

\* C12: query join soundness.  Whatever the world state and whichever of the
\* two arrays is the primary, forEach calls the callback exactly once for each
\* entity that has both components and for no other entity.
C12_QueryJoinSound ==
    op.name = "forEach" =>
        LET other == IF op.ty = CompA THEN CompB ELSE CompA
        IN /\ {op.seq[i] : i \in 1..Len(op.seq)} =
                  {e \in Handles : has(arrays_[CompA], e) /\ has(arrays_[CompB], e)}
           /\ \A i, j \in 1..Len(op.seq) : i # j => op.seq[i] # op.seq[j]

\* --------------------------------------------------- SystemRegistry claims
\* The slot of the registry the system object uid sits in (0 when in none).
SlotOf(systems, uid) ==
    IF \E i \in 1..Len(systems) : systems[i].uid = uid
    THEN CHOOSE i \in 1..Len(systems) : systems[i].uid = uid
    ELSE 0

\* The calls are made on systems of the registry, front to back, each at most once.
InRegistrationOrder(systems, log) ==
    /\ \A c \in 1..Len(log) : SlotOf(systems, log[c].uid) # 0
    /\ \A c, d \in 1..Len(log) : c < d => SlotOf(systems, log[c].uid) < SlotOf(systems, log[d].uid)

C14_InitForwardShutdownReverse ==
    LET n == Len(systems_)
        i == initAll(systems_)
        d == shutdownAll(systems_)
    IN /\ Len(i.calls) = n /\ Len(d.calls) = n
       /\ \A c \in 1..n : i.calls[c] = [fn |-> "init", uid |-> systems_[c].uid]
       /\ \A c \in 1..n : d.calls[c] = [fn |-> "shutdown", uid |-> systems_[n + 1 - c].uid]
       /\ i.systems = systems_ /\ d.systems = systems_

\* shutdownAll ran on a registry whose first slot was replaced after the second
\* was registered and whose second system is disabled: the second system was
\* shut down first.
C14_Witness ==
    /\ op.name = "shutdownAll"
    /\ Len(systems_) = 2
    /\ systems_[1].uid > systems_[2].uid
    /\ ~systems_[2].enabled
    /\ calls = <<Call("shutdown", systems_[2]), Call("shutdown", systems_[1])>>

\* Whether the system in slot i is what the replacement recorded in o looks for.
Matches(systems, o, i) ==
    IF o.name = "replaceSystem" THEN systems[i].id = o.key ELSE systems[i].name = o.key
IsReplace(o) == o.name \in {"replaceSystem", "replaceSystemByName"}

\* C15: replacement preserves order.  A replaceSystem / replaceSystemByName
\* that finds a match leaves the number of systems unchanged, puts the new
\* system object into the slot of the first match and leaves every other slot
\* as it was; every updateAll runs only systems that are in the registry at
\* that time (never a replaced one), in slot order, starting with the first
\* enabled system.
C15_ReplacementPreservesOrder ==
    [][/\ (IsReplace(op') /\ \E i \in 1..Len(systems_) : Matches(systems_, op', i)) =>
              /\ Len(systems_') = Len(systems_)
              /\ \E k \in 1..Len(systems_) :
                     /\ Matches(systems_, op', k)
                     /\ \A j \in 1..(k - 1) : ~Matches(systems_, op', j)
                     /\ systems_'[k].uid = nextSystem
                     /\ \A j \in 1..Len(systems_) : j # k => systems_'[j] = systems_[j]
       /\ op'.name = "updateAll" =>
              /\ InRegistrationOrder(systems_, calls')
              /\ \A i \in 1..Len(systems_) :
                     (systems_[i].enabled /\ \A j \in 1..(i - 1) : ~systems_[j].enabled)
                         => calls'[1] = Call("update", systems_[i])]_vars

\* A and B were registered, A was replaced by A', and the updateAll that
\* followed ran A' (in A's slot), then B.
C15_Witness ==
    /\ op.name = "updateAll"
    /\ Len(systems_) = 2
    /\ <<systems_[1].uid, systems_[2].uid>> = <<3, 2>>
    /\ calls = <<Call("update", systems_[1]), Call("update", systems_[2])>>

\* C16: a replacement that finds its target calls shutdown on the old system
\* (the first match) and then init on the new system object, and makes no
\* other init or shutdown call.
C16_ShutdownOldBeforeInitNew ==
    [][(IsReplace(op') /\ \E i \in 1..Len(systems_) : Matches(systems_, op', i)) =>
           \E k \in 1..Len(systems_) :
               /\ Matches(systems_, op', k)
               /\ \A j \in 1..(k - 1) : ~Matches(systems_, op', j)
               /\ calls' = <<[fn |-> "shutdown", uid |-> systems_[k].uid],
                            [fn |-> "init", uid |-> nextSystem]>>
               /\ systems_[k].uid # nextSystem]_vars

\* The second of two systems was replaced: shutdown on the old object, then init
\* on the new one, nothing for the first system.
C16_Witness ==
    /\ op.name = "replaceSystemByName"
    /\ Len(systems_) = 2
    /\ systems_[1].uid = 1
    /\ calls = <<[fn |-> "shutdown", uid |-> 2], [fn |-> "init", uid |-> 3]>>
    /\ systems_[2].uid = 3

\* C17: a replaceSystem / replaceSystemByName that finds no match appends the
\* new system at the end, leaves the existing systems untouched and calls init
\* on the new system (and makes no other call).
C17_ReplaceMissAppendsAndInits ==
    [][(IsReplace(op') /\ ~\E i \in 1..Len(systems_) : Matches(systems_, op', i)) =>
           /\ Len(systems_') = Len(systems_) + 1
           /\ SubSeq(systems_', 1, Len(systems_)) = systems_
           /\ systems_'[Len(systems_')].uid = nextSystem
           /\ calls' = <<[fn |-> "init", uid |-> nextSystem]>>]_vars

\* ------------------------------------------------- World tick, profiler claims
\* C18: with the profiler initialized, each World update(dt) advances the
\* profiler frame counter by exactly one and appends exactly one FrameStats to
\* the history (the history is the old one, less its oldest entry when it was
\* full, plus one entry at the end), the systems having run in between.
C18_TickIsOneProfilerFrame ==
    [][(op'.name = "update" /\ profiler.initialized) =>
           /\ profiler'.frameNumber = profiler.frameNumber + 1
           /\ profiler'.frameHistory # <<>>
           /\ \/ SubSeq(profiler'.frameHistory, 1, Len(profiler'.frameHistory) - 1)
                     = profiler.frameHistory
              \/ SubSeq(profiler'.frameHistory, 1, Len(profiler'.frameHistory) - 1)
                     = Tail(profiler.frameHistory)]_vars

\* C19: bounded rolling history.  In every state reachable after
\* initProfiler(historySize), whatever beginFrame, endFrame, resetProfilerStats,
\* shutdownProfiler and further initProfiler calls follow, the process is
\* running and the frame history holds at most historySize entries.
C19_HistoryBounded ==
    /\ ~profiler.crashed
    /\ profiler.initialized => Len(profiler.frameHistory) <= profiler.historySize

C21_UninitializedNoOps ==
    [][(~profiler.initialized
            /\ op'.name \in {"beginZone", "endZone", "beginFrame", "endFrame"}) =>
           /\ profiler' = profiler
           /\ op'.name = "beginZone" => op'.cnt = 0]_vars

\* beginZone was called after a shutdown that followed a finished frame: it
\* returned 0 and no zone was recorded.
C21_Witness ==
    /\ op.name = "beginZone" /\ op.cnt = 0
    /\ ~profiler.initialized
    /\ profiler.frameNumber = 1
    /\ profiler.currentZones = <<>>

\* C22: the zone vector and the start-time vector have equal length; with the
\* profiler initialized, beginZone returns the number of zones begun since
\* the frame began (the vector is emptied by beginFrame and shutdownProfiler
\* only, and grows by one per beginZone only) and appends one zone; endZone
\* with an id at or past the zone count changes nothing; endZone with an id in
\* range sets that zone's totalTime and selfTime to one value and changes
\* nothing else.
C22_ZoneIds ==
    [][LET zones == profiler.currentZones
           zones2 == profiler'.currentZones
       IN /\ Len(zones2) = Len(profiler'.zoneStartTimes)
          /\ (op'.name = "beginZone" /\ profiler.initialized) =>
                 /\ op'.cnt = Len(zones)
                 /\ Len(zones2) = Len(zones) + 1
                 /\ SubSeq(zones2, 1, Len(zones)) = zones
          /\ (op'.name = "beginFrame" /\ profiler.initialized) => zones2 = <<>>
          /\ op'.name \notin {"beginZone", "beginFrame", "shutdownProfiler"} =>
                 Len(zones2) = Len(zones)
          /\ (op'.name = "endZone" /\ op'.cnt >= Len(zones)) => profiler' = profiler
          /\ (op'.name = "endZone" /\ op'.cnt < Len(zones)) =>
                 /\ zones2[op'.cnt + 1].totalTime = zones2[op'.cnt + 1].selfTime
                 /\ zones2[op'.cnt + 1].totalTime = now - profiler.zoneStartTimes[op'.cnt + 1]
                 /\ \A j \in 1..Len(zones) : j # op'.cnt + 1 => zones2[j] = zones[j]
                 /\ [profiler' EXCEPT !.currentZones = zones] = profiler
                 /\ [zones2[op'.cnt + 1] EXCEPT !.totalTime = 0, !.selfTime = 0]
                        = [zones[op'.cnt + 1] EXCEPT !.totalTime = 0, !.selfTime = 0]]_vars

\* Two zones were begun in one frame; the first was ended two clock ticks
\* after it began and the second is untouched.
C22_Witness ==
    /\ op.name = "endZone" /\ op.cnt = 0
    /\ Len(profiler.currentZones) = 2
    /\ profiler.currentZones[1] = [id |-> 0, totalTime |-> 2, selfTime |-> 2, callCount |-> 1]
    /\ profiler.currentZones[2] = [id |-> 1, totalTime |-> 0, selfTime |-> 0, callCount |-> 1]

\* C25: recordDeallocation(bytes) leaves the in-flight memoryUsed at
\* max(0, previous memoryUsed - bytes), so at 0 when bytes exceeds the
\* counter; recordAllocation(bytes) adds bytes.
C25_DeallocationSaturates ==
    [][LET before == profiler.currentFrame.memoryUsed
           after == profiler'.currentFrame.memoryUsed
       IN /\ op'.name = "recordDeallocation" =>
                 after = (IF before - op'.cnt > 0 THEN before - op'.cnt ELSE 0)
          /\ op'.name = "recordAllocation" => after = before + op'.cnt]_vars

\* C23: over a non-empty history getProfilerStats returns
\* min <= avg <= max and min <= p95 <= p99 <= max, avg being the mean by
\* integer division and each percentile the sorted frame time at index
\* floor(p * (n - 1)).
C23_StatsOrdered ==
    (op.name = "getProfilerStats" /\ profiler.frameHistory # <<>>) =>
        LET st == op.stats
            times == TimesOf(profiler.frameHistory)
            n == Len(times)
        IN /\ st.sampleCount = n
           /\ st.minFrameTime <= st.avgFrameTime
           /\ st.avgFrameTime <= st.maxFrameTime
           /\ st.minFrameTime <= st.p95FrameTime
           /\ st.p95FrameTime <= st.p99FrameTime
           /\ st.p99FrameTime <= st.maxFrameTime
           /\ \A i \in 1..n : st.minFrameTime <= times[i] /\ times[i] <= st.maxFrameTime
           /\ st.avgFrameTime * n <= SumTimes(times)
           /\ SumTimes(times) < (st.avgFrameTime + 1) * n
           /\ \A pc \in {95, 99} :
                  LET v == IF pc = 95 THEN st.p95FrameTime ELSE st.p99FrameTime
                      k == (pc * (n - 1)) \div 100
                  IN /\ Cardinality({i \in 1..n : times[i] < v}) <= k
                     /\ Cardinality({i \in 1..n : times[i] <= v}) >= k + 1

\* Statistics were taken over three frames of times 3, 0, 2: the mean 1 lies
\* strictly between min 0 and max 3, and both percentiles are the median 2.
C23_Witness ==
    /\ op.name = "getProfilerStats"
    /\ TimesOf(profiler.frameHistory) = <<3, 0, 2>>
    /\ op.stats.avgFrameTime = 1
    /\ op.stats.p95FrameTime = 2 /\ op.stats.p99FrameTime = 2

\* The 100-frame scenario: frame i took i milliseconds, and statistics were
\* taken.
IsScenario ==
    /\ op.name = "getProfilerStats"
    /\ TimesOf(profiler.frameHistory) = ScenarioTimes

\* C24 as stated: over 100 frames of 1..100 ms the mean is 50.5 ms, p95 is
\* 96 ms, p99 is 100 ms, the spike threshold is 101 ms and no frame is a spike.
C24_ScenarioAsStated ==
    IsScenario =>
        /\ 2 * op.stats.avgFrameTime = 101 * Millisecond
        /\ op.stats.p95FrameTime = 96 * Millisecond
        /\ op.stats.p99FrameTime = 100 * Millisecond
        /\ op.stats.spikeThreshold = 101 * Millisecond
        /\ op.stats.spikeCount = 0

\* C24 amended: over 100 frames of 1..100 ms the mean is 50.5 ms, p95 is
\* 95 ms (sorted index 94), p99 is 99 ms (sorted index 98), the spike threshold
\* is 101 ms and no frame is a spike.
C24_ScenarioPercentiles ==
    IsScenario =>
        /\ 2 * op.stats.avgFrameTime = 101 * Millisecond
        /\ op.stats.p95FrameTime = 95 * Millisecond
        /\ op.stats.p99FrameTime = 99 * Millisecond
        /\ op.stats.spikeThreshold = 101 * Millisecond
        /\ op.stats.spikeCount = 0
        /\ op.stats.sampleCount = ScenarioFrames

\* Statistics were taken over the 100-frame scenario.
C24_Witness ==
    /\ IsScenario
    /\ Len(profiler.frameHistory) = 100
    /\ profiler.frameHistory[100].totalTime = 100 * Millisecond
    /\ op.stats.maxFrameTime = 100 * Millisecond

\* The variant-capable systems that support both Scalar and SIMD
SupportsSimd(system) == {"Scalar", "SIMD"} \subseteq availableVariants(system, simdBuild)

\* C26: one controller tick turns every variant-capable system that is Scalar
\* to SIMD when the entity count is above 500, every one that is SIMD to
\* Scalar when the count is below 100, leaves the variant alone in every other
\* case (count exactly 500 or 100 or in between), and calls switchVariant at
\* most once on a system.
C26_ControllerRule ==
    [][op'.name = "optimizerUpdate" =>
           LET entityCount == entities_.aliveCount_
           IN /\ \A i \in 1..Len(systems_) :
                     SupportsSimd(systems_[i]) =>
                         systems_'[i].variant =
                             IF systems_[i].variant = "Scalar" /\ entityCount > 500
                             THEN "SIMD"
                             ELSE IF systems_[i].variant = "SIMD" /\ entityCount < 100
                                  THEN "Scalar"
                                  ELSE systems_[i].variant
              /\ \A j, k \in 1..Len(op'.seq) : op'.seq[j] = op'.seq[k] => j = k]_vars

\* C27: with a registered Velocity system that supports {Scalar, SIMD}, a
\* controller tick at 600 alive entities leaves it SIMD, and a controller tick
\* after destroying down to 50 alive entities leaves it Scalar.
C27_VelocityScenario ==
    [][op'.name = "optimizerUpdate" =>
           \A i \in 1..Len(systems_) :
               (systems_[i].id = "VelocitySystem" /\ SupportsSimd(systems_[i])) =>
                   /\ entities_.aliveCount_ = 600 => systems_'[i].variant = "SIMD"
                   /\ (entities_.aliveCount_ = 50 /\ entities_.freeList_ # <<>>) =>
                          systems_'[i].variant = "Scalar"]_vars

\* C28: switchVariant(v) returns true and makes v current when v is among
\* availableVariants, and returns false and changes nothing otherwise, for
\* every v of the enum; Scalar is always available; the current variant of
\* every system is always among its available variants.
C28_SwitchVariantContract ==
    [][/\ \A i \in 1..Len(systems_') :
              /\ "Scalar" \in availableVariants(systems_'[i], simdBuild)
              /\ systems_'[i].variant \in availableVariants(systems_'[i], simdBuild)
       /\ op'.name = "switchVariant" =>
              LET i == op'.cnt
                  v == op'.key
              IN /\ \A j \in 1..Len(systems_) : j # i => systems_'[j] = systems_[j]
                 /\ IF v \in availableVariants(systems_[i], simdBuild)
                    THEN op'.ok /\ systems_'[i] = [systems_[i] EXCEPT !.variant = v]
                    ELSE ~op'.ok /\ systems_'[i] = systems_[i]]_vars

\* A VelocitySystem of a build without SIMD was asked for SIMD and refused,
\* next to a PhysicsSystem that had been switched to SIMD.
C28_Witness ==
    /\ op.name = "switchVariant" /\ op.key = "SIMD" /\ ~op.ok
    /\ ~simdBuild
    /\ Len(systems_) = 2
    /\ systems_[op.cnt].id = "VelocitySystem" /\ systems_[op.cnt].variant = "Scalar"
    /\ \E j \in 1..2 : systems_[j].id = "PhysicsSystem" /\ systems_[j].variant = "SIMD"

\* C29: publish<E> invokes every listener subscribed to E when it takes its
\* copy, each exactly once and in the order of subscription (the order in
\* which the ids were issued), and no listener that was subscribed to another
\* event type.
C29_PublishInvokesSubscribers ==
    [][/\ op'.name = "publish" =>
              LET d == pub'.dispatches[Len(pub'.dispatches)]
                  E == op'.key
              IN /\ d.event = E /\ d.done = 0
                 /\ \A id \in 1..Len(pub.owner) :
                        (pub.owner[id] = E /\ <<E, id>> \notin pub.unsubscribed)
                            <=> (\E i \in 1..Len(d.callbacks) : d.callbacks[i] = id)
                 /\ \A i, j \in 1..Len(d.callbacks) :
                        i < j => d.callbacks[i] < d.callbacks[j]
       /\ op'.name = "invoke" =>
              \E k \in 1..Len(pub.dispatches) :
                  /\ pub.dispatches[k].done < Len(pub.dispatches[k].callbacks)
                  /\ pub'.dispatches = [pub.dispatches EXCEPT ![k].done = @ + 1]
       /\ op'.name = "published" =>
              \E k \in 1..Len(pub.dispatches) :
                  /\ pub.dispatches[k].done = Len(pub.dispatches[k].callbacks)
                  /\ op'.seq = pub.dispatches[k].callbacks
                  /\ \A i \in 1..Len(op'.seq) : pub.owner[op'.seq[i]] = op'.key]_vars

\* A publish<E1> returned after invoking listeners 1 and 3 in that order,
\* while listener 2 is subscribed to E2.
C29_Witness ==
    /\ op.name = "published" /\ op.key = "E1"
    /\ op.seq = <<1, 3>>
    /\ Listeners(bus, "E2") = <<2>>

\* unsubscribe<E>(id) on the bus b, for every type and every id up to one
\* past the largest issued: E's list is left without id, no other list
\* changes, and nothing changes at all when id is not in E's list.
UnsubscribeRemovesOnly(b) ==
    \A E \in EventTypes, id \in 1..(MaxListenerIds + 1) :
        LET after == unsubscribe(b, E, id)
        IN /\ \A i \in 1..Len(Listeners(after, E)) : Listeners(after, E)[i] # id
           /\ (\A i \in 1..Len(Listeners(b, E)) : Listeners(b, E)[i] # id) => after = b
           /\ \A F \in EventTypes : F # E => Listeners(after, F) = Listeners(b, F)

\* C30: no publish<E> that takes its copy after unsubscribe<E>(id) has
\* returned invokes that listener; unsubscribe<E>(id) with an id that is not
\* in E's list (never issued, already removed, issued for another type)
\* leaves every listener list as it was.  The second part is stated of
\* unsubscribe applied to every value the bus takes.
C30_UnsubscribeStops ==
    [][/\ op'.name = "publish" =>
              LET d == pub'.dispatches[Len(pub'.dispatches)]
              IN \A i \in 1..Len(d.callbacks) :
                     <<op'.key, d.callbacks[i]>> \notin pub.unsubscribed
       /\ bus' # bus => UnsubscribeRemovesOnly(bus) /\ UnsubscribeRemovesOnly(bus')
       /\ op'.name = "unsubscribe" =>
              \/ bus' = bus /\ pub' = pub
              \/ \E E \in EventTypes, id \in 1..(MaxListenerIds + 1) :
                     /\ bus' = unsubscribe(bus, E, id)
                     /\ pub'.unsubscribed = pub.unsubscribed \cup {<<E, id>>}]_vars

\* After unsubscribe<E1>(1) a publish<E1> returned having invoked listener 2
\* only, and listener 3 of E2 is still subscribed.
C30_Witness ==
    /\ op.name = "published" /\ op.key = "E1"
    /\ op.seq = <<2>>
    /\ <<"E1", 1>> \in pub.unsubscribed
    /\ Listeners(bus, "E2") = <<3>>

\* C31: a listener subscribed to E while a publish<E> is in flight is not
\* invoked by that publish (the publish in flight keeps walking the callbacks
\* it copied, which do not hold the new id, and returns after exactly those),
\* and the next publish<E> holds it exactly once.
C31_SubscribeDuringPublish ==
    [][/\ op'.name = "subscribe" =>
              /\ pub'.dispatches = pub.dispatches
              /\ \A k \in 1..Len(pub.dispatches) :
                     \A i \in 1..Len(pub.dispatches[k].callbacks) :
                         pub.dispatches[k].callbacks[i] # op'.cnt
       /\ op'.name = "invoke" =>
              \E k \in 1..Len(pub.dispatches) :
                  /\ pub.dispatches[k].done < Len(pub.dispatches[k].callbacks)
                  /\ pub'.dispatches = [pub.dispatches EXCEPT ![k].done = @ + 1]
       /\ op'.name = "published" =>
              \E k \in 1..Len(pub.dispatches) :
                  /\ pub.dispatches[k].done = Len(pub.dispatches[k].callbacks)
                  /\ op'.seq = pub.dispatches[k].callbacks
       /\ op'.name = "publish" =>
              LET d == pub'.dispatches[Len(pub'.dispatches)]
              IN \A i \in 1..Len(Listeners(bus, op'.key)) :
                     Cardinality({j \in 1..Len(d.callbacks) :
                                     d.callbacks[j] = Listeners(bus, op'.key)[i]}) = 1]_vars

\* Listener 2 was subscribed to E1 while a publish<E1> that copied listener 1
\* alone was in flight.
C31_Witness ==
    /\ op.name = "subscribe" /\ op.key = "E1" /\ op.cnt = 2
    /\ Len(pub.dispatches) = 1
    /\ pub.dispatches[1].event = "E1"
    /\ pub.dispatches[1].callbacks = <<1>>
    /\ Listeners(bus, "E1") = <<1, 2>>

\* C32: no invocation of the callback of listener id begins after
\* unsubscribe<E>(id) has returned, whatever the interleaving of publish<E>
\* and unsubscribe<E>(id).
C32_NoInvokeAfterUnsubscribe ==
    [][\A k \in 1..Len(pub.dispatches) :
           (/\ Len(pub'.dispatches) = Len(pub.dispatches)
            /\ pub'.dispatches[k].done = pub.dispatches[k].done + 1) =>
               <<pub.dispatches[k].event,
                 pub.dispatches[k].callbacks[pub.dispatches[k].done + 1]>>
                   \notin pub.unsubscribed]_vars

MaxRecorded == 4

\* currentFrame.memoryUsed is a plain usize and recordAllocation takes no lock,
\* so two calls that overlap race on it.  The += is a read of the field
\* followed by a write of the sum; a thread between the two holds the value
\* it read in loaded.
RacyLoad(th, p, bytes) ==
    [th EXCEPT !.pc = "store", !.bytes = bytes, !.loaded = p.currentFrame.memoryUsed]

\* the write of the +=: the value read earlier plus bytes
recordAllocationStore(p, th) ==
    [p EXCEPT !.currentFrame.memoryUsed = th.loaded + th.bytes]

AllIdle == \A t \in ThreadIds : threads[t].pc = "idle"

\* thread t enters recordAllocation(bytes) and reads memoryUsed
TRecordLoad(t, bytes) ==
    /\ ~profiler.crashed
    /\ threads[t].pc = "idle"
    /\ hist.recorded + bytes <= MaxRecorded
    /\ threads' = [threads EXCEPT ![t] = RacyLoad(@, profiler, bytes)]
    /\ hist' = [hist EXCEPT !.recorded = @ + bytes]
    /\ op' = [NoOp EXCEPT !.name = "recordAllocation:load", !.key = t, !.cnt = bytes]
    /\ UNCHANGED <<entities_, arrays_, issued, destroyed, pending, keepHistory, sysVars,
                   profiler, now, simdBuild, bus, pub, tracker>>

\* thread t writes the sum back and returns
TRecordStore(t) ==
    /\ ~profiler.crashed
    /\ threads[t].pc = "store"
    /\ profiler' = recordAllocationStore(profiler, threads[t])
    /\ threads' = [threads EXCEPT ![t] = IdleThread]
    /\ op' = [NoOp EXCEPT !.name = "recordAllocation:store", !.key = t]
    /\ UNCHANGED <<entities_, arrays_, issued, destroyed, pending, keepHistory, sysVars,
                   now, simdBuild, bus, pub, tracker, hist>>

\* beginFrame() while no recordAllocation is in progress: a new frame starts
\* and its memoryUsed is 0
TBeginFrame ==
    /\ ~profiler.crashed
    /\ AllIdle
    /\ profiler.frameNumber < MaxFrames
    /\ profiler' = beginFrame(profiler, now)
    /\ hist' = [hist EXCEPT !.recorded = IF profiler.initialized THEN 0 ELSE @]
    /\ op' = [NoOp EXCEPT !.name = "beginFrame"]
    /\ UNCHANGED <<entities_, arrays_, issued, destroyed, pending, keepHistory, sysVars,
                   now, simdBuild, bus, pub, threads, tracker>>

NextRecord ==
    \/ PInitProfiler(1)
    \/ PEndFrame
    \/ TBeginFrame
    \/ \E t \in ThreadIds, bytes \in 0..MaxBytes : TRecordLoad(t, bytes)
    \/ \E t \in ThreadIds : TRecordStore(t)

SpecRecord == InitWorld /\ [][NextRecord]_vars

\* C34: when the recordAllocation calls of a frame have all returned, with no
\* beginFrame and no deallocation among them, memoryUsed has grown by the sum
\* of their bytes under every interleaving: no update is lost.
C34_NoLostUpdate ==
    AllIdle => profiler.currentFrame.memoryUsed = hist.recorded

\* =========================================================================
\* Memory-tag counters: trackAllocation called from several threads
\* =========================================================================
\* Largest number of trackAllocation calls the specification lets the tag
\* count, and largest byte count of one of them.
MaxTagCalls == 2
MaxTagBytes == 1

Max(a, b) == IF a >= b THEN a ELSE b

\* usize current = tracker.currentBytes.fetch_add(size) + size;
\* one atomic step: the counter grows and the thread keeps the new value
fetchAddCurrent(tr, th, bytes) ==
    [tracker |-> [tr EXCEPT !.currentBytes = @ + bytes],
     thread |-> [th EXCEPT !.pc = "loadPeak", !.bytes = bytes,
                           !.current = tr.currentBytes + bytes]]

\* usize peak = tracker.peakBytes.load();
loadPeak(tr, th) == [th EXCEPT !.pc = "loop", !.peak = tr.peakBytes]

\* a plain store in place of the compare-exchange: peakBytes becomes current
\* whatever it holds
storePeak(tr, th) ==
    {[tracker |-> [tr EXCEPT !.peakBytes = th.current],
      thread |-> [th EXCEPT !.pc = "count"], ok |-> TRUE]}

\* tracker.peakBytes.compare_exchange_weak(peak, current): the outcomes it can
\* have.  It succeeds only when peakBytes still holds the expected value peak
\* and then stores current; it fails when peakBytes differs, and it may fail
\* spuriously when it does not; a failure loads peakBytes into peak.
compare_exchange_weak(tr, th) ==
    {[tracker |-> tr, thread |-> [th EXCEPT !.peak = tr.peakBytes], ok |-> FALSE]}
    \cup (IF tr.peakBytes = th.peak
          THEN {[tracker |-> [tr EXCEPT !.peakBytes = th.current],
                 thread |-> [th EXCEPT !.pc = "count"], ok |-> TRUE]}
          ELSE {})

\* the trackAllocation calls that have started
TagCallsStarted ==
    tracker.totalAllocations + Cardinality({t \in ThreadIds : threads[t].pc # "idle"})

\* thread t enters trackAllocation(tag, size) and executes the fetch_add
TFetchAdd(t, bytes) ==
    /\ threads[t].pc = "idle"
    /\ TagCallsStarted < MaxTagCalls
    /\ LET r == fetchAddCurrent(tracker, threads[t], bytes)
       IN /\ tracker' = r.tracker
          /\ threads' = [threads EXCEPT ![t] = r.thread]
          /\ hist' = [hist EXCEPT !.largest = Max(@, r.tracker.currentBytes)]
    /\ op' = [NoOp EXCEPT !.name = "trackAllocation:fetch_add"]
    /\ UNCHANGED <<entities_, arrays_, issued, destroyed, pending, keepHistory, sysVars,
                   profiler, now, simdBuild, bus, pub>>

\* thread t loads peakBytes
TLoadPeak(t) ==
    /\ threads[t].pc = "loadPeak"
    /\ threads' = [threads EXCEPT ![t] = loadPeak(tracker, @)]
    /\ op' = [NoOp EXCEPT !.name = "trackAllocation:load"]
    /\ UNCHANGED <<entities_, arrays_, issued, destroyed, pending, keepHistory, sysVars,
                   profiler, now, simdBuild, bus, pub, tracker, hist>>

\* while (current > peak && !compare_exchange_weak(peak, current)): the
\* compare-exchange succeeds and the loop ends
TCasSuccess(t) ==
    /\ threads[t].pc = "loop"
    /\ threads[t].current > threads[t].peak
    /\ \E o \in compare_exchange_weak(tracker, threads[t]) :
          /\ o.ok
          /\ tracker' = o.tracker
          /\ threads' = [threads EXCEPT ![t] = o.thread]
    /\ op' = [NoOp EXCEPT !.name = "trackAllocation:cas", !.ok = TRUE]
    /\ UNCHANGED <<entities_, arrays_, issued, destroyed, pending, keepHistory, sysVars,
                   profiler, now, simdBuild, bus, pub, hist>>

\* the compare-exchange fails and the loop tests its condition again
TCasFail(t) ==
    /\ threads[t].pc = "loop"
    /\ threads[t].current > threads[t].peak
    /\ \E o \in compare_exchange_weak(tracker, threads[t]) :
          /\ ~o.ok
          /\ tracker' = o.tracker
          /\ threads' = [threads EXCEPT ![t] = o.thread]
    /\ op' = [NoOp EXCEPT !.name = "trackAllocation:cas"]
    /\ UNCHANGED <<entities_, arrays_, issued, destroyed, pending, keepHistory, sysVars,
                   profiler, now, simdBuild, bus, pub, hist>>

\* the loop has ended (current > peak is false, or the compare-exchange
\* succeeded): tracker.totalAllocations.fetch_add(1) and return
TCountAllocation(t) ==
    /\ \/ threads[t].pc = "count"
       \/ threads[t].pc = "loop" /\ ~(threads[t].current > threads[t].peak)
    /\ tracker' = [tracker EXCEPT !.totalAllocations = @ + 1]
    /\ threads' = [threads EXCEPT ![t] = IdleThread]
    /\ op' = [NoOp EXCEPT !.name = "trackAllocation"]
    /\ UNCHANGED <<entities_, arrays_, issued, destroyed, pending, keepHistory, sysVars,
                   profiler, now, simdBuild, bus, pub, hist>>

\* trackDeallocation(tag, size): currentBytes.fetch_sub(size) and
\* totalDeallocations.fetch_add(1).  taggedFree and taggedAlignedFree pass
\* size 0; other sizes are drawn up to what the counter holds, and no more
\* deallocations are made than allocations have returned.
trackDeallocation(tr, bytes) ==
    [tr EXCEPT !.currentBytes = @ - bytes, !.totalDeallocations = @ + 1]

TTrackDeallocation(t, bytes) ==
    /\ threads[t].pc = "idle"
    /\ bytes <= tracker.currentBytes
    /\ tracker.totalDeallocations < tracker.totalAllocations
    /\ tracker' = trackDeallocation(tracker, bytes)
    /\ op' = [NoOp EXCEPT !.name = "trackDeallocation"]
    /\ UNCHANGED <<entities_, arrays_, issued, destroyed, pending, keepHistory, sysVars,
                   profiler, now, simdBuild, bus, pub, threads, hist>>

NextTags ==
    \/ \E t \in ThreadIds, bytes \in 0..MaxTagBytes : TFetchAdd(t, bytes)
    \/ \E t \in ThreadIds : TLoadPeak(t)
    \/ \E t \in ThreadIds : TCasSuccess(t)
    \/ \E t \in ThreadIds : TCasFail(t)
    \/ \E t \in ThreadIds : TCountAllocation(t)
    \/ \E t \in ThreadIds, bytes \in 0..MaxTagBytes : TTrackDeallocation(t, bytes)

\* Every thread inside trackAllocation is scheduled again, and a
\* compare_exchange_weak that could succeed does not fail spuriously for ever.
SpecTagsFair ==
    /\ InitWorld
    /\ [][NextTags]_vars
    /\ \A t \in ThreadIds :
          /\ WF_vars(TLoadPeak(t))
          /\ WF_vars(TCasSuccess(t))
          /\ WF_vars(TCasFail(t))
          /\ WF_vars(TCountAllocation(t))

\* C35: once the trackAllocation calls made on the tag have all returned,
\* peakBytes is at least currentBytes and equals the largest value
\* currentBytes has taken; and every call that has entered its
\* compare-exchange loop leaves it and returns.
C35_PeakTracking ==
    /\ [](AllIdle => /\ tracker.peakBytes >= tracker.currentBytes
                     /\ tracker.peakBytes = hist.largest)
    /\ \A t \in ThreadIds : (threads[t].pc # "idle") ~> (threads[t].pc = "idle")

\* Both threads were in the loop with the same expected peak, one of them
\* failed its compare-exchange against the other's store, and both returned.
C35_Witness ==
    /\ AllIdle
    /\ op.name = "trackAllocation"
    /\ tracker.totalAllocations = 2
    /\ tracker.peakBytes = 2
    /\ tracker.currentBytes = 2
    /\ hist.largest = 2

\* =========================================================================
\* Zone ids held across a frame boundary
\* =========================================================================
\* The ids beginZone has returned in the current frame
CurrentZoneIds(p) == {k - 1 : k \in 1..Len(p.currentZones)}

\* beginFrame(): the ids returned in the frame that ends are from now on ids
\* returned before the most recent beginFrame
SBeginFrame ==
    /\ ~profiler.crashed
    /\ profiler' = beginFrame(profiler, now)
    /\ hist' = [hist EXCEPT !.stale = @ \cup CurrentZoneIds(profiler)]
    /\ op' = [NoOp EXCEPT !.name = "beginFrame"]
    /\ UNCHANGED <<entities_, arrays_, issued, destroyed, pending, keepHistory, sysVars,
                   now, simdBuild, bus, pub, threads, tracker>>

\* beginZone(): a ScopedTimer is constructed; the 0 it is handed while the
\* profiler is uninitialized names no zone
SBeginZone ==
    /\ ~profiler.crashed
    /\ Len(profiler.currentZones) < MaxZones
    /\ LET r == beginZone(profiler, now)
       IN /\ profiler' = r.p
          /\ hist' = [hist EXCEPT !.stale = IF profiler.initialized THEN @ ELSE @ \cup {r.ret}]
          /\ op' = [NoOp EXCEPT !.name = "beginZone", !.cnt = r.ret]
    /\ UNCHANGED <<entities_, arrays_, issued, destroyed, pending, keepHistory, sysVars,
                   now, simdBuild, bus, pub, threads, tracker>>

\* ~ScopedTimer() of a timer constructed before the most recent beginFrame, or
\* while the profiler was uninitialized: endZone(zoneId_) with the id it kept
SEndZoneStale(zoneId) ==
    /\ ~profiler.crashed
    /\ zoneId \in hist.stale
    /\ profiler' = endZone(profiler, zoneId, now)
    /\ op' = [NoOp EXCEPT !.name = "endZone:stale", !.cnt = zoneId]
    /\ UNCHANGED <<entities_, arrays_, issued, destroyed, pending, keepHistory, sysVars,
                   auxVars>>

NextScoped ==
    \/ PInitProfiler(1)
    \/ SBeginFrame
    \/ PEndFrame
    \/ SBeginZone
    \/ \E zoneId \in 0..MaxZones : PEndZone(zoneId)
    \/ \E zoneId \in 0..MaxZones : SEndZoneStale(zoneId)
    \/ ClockAdvance

SpecScoped == InitWorld /\ [][NextScoped]_vars

\* C36: an endZone called with an id that beginZone returned before the most
\* recent beginFrame, or returned as 0 while the profiler was uninitialized,
\* leaves the zones of the current frame and their timing as they are.
C36_StaleEndZoneHarmless ==
    [][op'.name = "endZone:stale" => profiler'.currentZones = profiler.currentZones]_vars

\* =========================================================================
\* EntityManager bookkeeping
\* =========================================================================
\* The slot indices whose alive bit is set, and those whose bit is clear
AliveSlots(em) == {i \in 0..(capacity(em) - 1) : em.alive_[i + 1]}
DeadSlots(em) == {i \in 0..(capacity(em) - 1) : ~em.alive_[i + 1]}
\* The slot indices held in the free list
FreeSlots(em) == {em.freeList_[k] : k \in 1..Len(em.freeList_)}

\* C37: in every state create, destroy and clear reach, aliveCount is the
\* number of slots whose alive bit is set, the free list holds exactly the
\* slots whose bit is clear, each once, and aliveCount + recycledCount =
\* capacity.
C37_Bookkeeping ==
    /\ Len(entities_.alive_) = capacity(entities_)
    /\ entities_.aliveCount_ = Cardinality(AliveSlots(entities_))
    /\ FreeSlots(entities_) = DeadSlots(entities_)
    /\ Cardinality(FreeSlots(entities_)) = recycledCount(entities_)
    /\ entities_.aliveCount_ + recycledCount(entities_) = capacity(entities_)

\* A destroy has just freed one of two slots, the other is still alive.
C37_Witness ==
    /\ op.name = "destroy"
    /\ op.ok
    /\ capacity(entities_) = 2
    /\ entities_.aliveCount_ = 1
    /\ recycledCount(entities_) = 1

\* =========================================================================
\* World: components and the life of entities
\* =========================================================================
\* The entities stored in the dense list of array a
StoredEntities(a) == {a.denseEntities_[k] : k \in 1..Len(a.denseEntities_)}

\* C39: after any sequence of createEntity, destroyEntity, addComponent and
\* removeComponent, every entity stored in a component array is alive in the
\* EntityManager, so the size of an array counts alive entities only.
C39_NoComponentsOnDeadEntities ==
    \A t \in DOMAIN arrays_ : \A e \in StoredEntities(arrays_[t]) : isAlive(entities_, e)

\* -------------------------------------------- handles kept by the callers
\* Handles a caller of the World may still hold: those createEntity has
\* returned, before or after the last clear.
HeldHandles == issued \cup hist.beforeClear

\* createEntity(): the history notes whether the recycle branch was taken, and
\* forgets what was added to an earlier owner of the handle
HCreateEntity ==
    /\ LET r == EntityManager_create(entities_)
       IN /\ Cardinality(issued \cup {r.ret}) <= WorldMaxHandles
          /\ entities_' = r.em
          /\ op' = [NoOp EXCEPT !.name = "createEntity", !.ent = r.ret]
          /\ issued' = issued \cup {r.ret}
          /\ hist' = [hist EXCEPT
                        !.recycled = IF entities_.freeList_ # <<>>
                                     THEN @ \cup {r.ret} ELSE @ \ {r.ret},
                        !.added = {x \in @ : x.e # r.ret}]
    /\ UNCHANGED <<arrays_, destroyed, pending, keepHistory, sysVars, profiler,
                   now, simdBuild, bus, pub, threads, tracker>>

\* destroyEntity(e)
HDestroyEntity(e) ==
    /\ LET r == World_destroyEntity(entities_, arrays_, e)
       IN /\ entities_' = r.em
          /\ arrays_' = r.arrays
          /\ op' = [NoOp EXCEPT !.name = "destroyEntity", !.ok = r.ret]
    /\ UNCHANGED <<issued, destroyed, pending, keepHistory, sysVars, profiler, auxVars>>

\* removeComponent<T>(e)
HRemoveComponent(t, e) ==
    /\ arrays_' = World_removeComponent(arrays_, t, e)
    /\ op' = [NoOp EXCEPT !.name = "removeComponent"]
    /\ UNCHANGED <<entities_, issued, destroyed, pending, keepHistory, sysVars, profiler, auxVars>>

\* addComponent<T>(e, v): the history notes the value when e is alive
HAddComponent(t, e, v) ==
    /\ LET a == getArray(arrays_, t)[t]
       IN has(a, e) \/ size(a) < WorldMaxDense
    /\ arrays_' = World_addComponent(arrays_, t, e, v)
    /\ op' = [NoOp EXCEPT !.name = "addComponent"]
    /\ hist' = [hist EXCEPT
                  !.added = IF isAlive(entities_, e)
                            THEN {x \in @ : ~(x.ty = t /\ x.e = e)}
                                 \cup {[ty |-> t, e |-> e, v |-> v]}
                            ELSE @]
    /\ UNCHANGED <<entities_, issued, destroyed, pending, keepHistory, sysVars, profiler,
                   now, simdBuild, bus, pub, threads, tracker>>

\* World::clear(): the handles handed out so far are from now on handles
\* obtained before the clear
HClear ==
    /\ entities_' = EntityManager_clear(entities_)
    /\ arrays_' = <<>>
    /\ op' = [NoOp EXCEPT !.name = "clear"]
    /\ issued' = {}
    /\ hist' = [hist EXCEPT !.beforeClear = @ \cup issued, !.recycled = {}, !.added = {}]
    /\ UNCHANGED <<destroyed, pending, keepHistory, sysVars, profiler, now, simdBuild, bus, pub, threads, tracker>>

NextClear ==
    \/ HCreateEntity
    \/ \E e \in HeldHandles : HDestroyEntity(e)
    \/ \E e \in HeldHandles, v \in Values : HAddComponent(CompA, e, v)
    \/ \E e \in HeldHandles : HRemoveComponent(CompA, e)
    \/ HClear

SpecClear == InitWorld /\ [][NextClear]_vars

\* C38: an alive entity e' that createEntity returned from the recycle branch
\* has a component of type T only if addComponent<T> was called for e' since
\* it was created, and getComponent<T>(e') is then the value last added to e',
\* never one stored under an earlier owner of the slot.
C38_RecycledInheritsNothing ==
    \A e \in hist.recycled : \A t \in DOMAIN arrays_ :
        isAlive(entities_, e) /\ has(arrays_[t], e)
            => [ty |-> t, e |-> e, v |-> get(arrays_[t], e).value] \in hist.added

\* C40: after clear() entityCount() is 0, and every handle obtained before
\* the clear is not alive and has no component, also after later createEntity
\* and addComponent calls.
C40_ClearInvalidatesForGood ==
    /\ op.name = "clear" => entities_.aliveCount_ = 0
    /\ \A e \in hist.beforeClear :
          /\ ~isAlive(entities_, e)
          /\ \A t \in DOMAIN arrays_ : ~has(arrays_[t], e)

====
